---- MODULE Spec2Model ----
(***************************************************************************)
(* Request pipeline of the camera SDK clients: HikvisionClient (signed      *)
(* requests), DahuaClient and UniviewClient (token session), with the axios *)
(* request/response interceptors, the login procedures, the keep-alive      *)
(* timer, close(), and the pagination aggregators of the API wrappers.      *)
(*                                                                         *)
(* One asynchronous call is a stack of frames: an httpClient request, a    *)
(* login in progress, ...  A frame rests only where the code awaits; time, *)
(* the platform's answers and the caller's calls are the inputs.           *)
(*                                                                         *)
(* Spec          a client from its construction on                         *)
(* SpecSession   the session fields under login's success branch alone     *)
(* SpecPaging    the pagination loops over the platform's item list        *)
(* SpecConstruct the constructor over every config                         *)
(* SpecEntry     one request through the typed and the generic entry       *)
(* SpecSign      the authentication material computed twice                *)
(* SpecOverlap   two overlapping ensureAuthenticated() calls               *)
(* SpecLogin     UniviewClient.login alone, every transport call answered  *)
(* SpecPages     the pagination loops, page by page, against a platform    *)
(*               that may fail a request or report a total it never serves *)
(* SpecWrapper   one call of a typed API wrapper that checks its input     *)
(* SpecVerify    HikvisionAuth signing requests and verifying signatures   *)
(***************************************************************************)
EXTENDS Integers, Sequences, FiniteSets, TLC

VARIABLES
  vendor,            \* which client class was constructed
  now,               \* Date.now(), in ms
  ticks,             \* number of clock advances so far (bounds the clock)
  accessToken,       \* this.accessToken (Null or a token the platform issued)
  tokenExpiresAt,    \* this.tokenExpiresAt (NullTime, NaN or a time in ms)
  keepAliveInterval, \* this.keepAliveInterval (Null or a timer id)
  timers,            \* the runtime's live interval timers (ids)
  due,               \* when the live keep-alive timer fires next
  task,              \* the asynchronous calls in progress, one per process
  calls,             \* number of operations the caller has started
  pg,                \* a pagination aggregator call and the platform's item list
  sinceClose,        \* "never" closed; "quiet" since close(); "quiet2" since a
                     \* close() that followed a close(); "used" after it
  ctor,              \* the constructor call: its config and how it ended
  en,                \* one request made through the typed and the generic entry,
                     \* or one call of a typed wrapper
  sg,                \* authentication material computed twice from the same inputs
  ov                 \* the last login the platform granted to overlapping calls

\* the variables of the units that are checked on their own
unitVars == <<ctor, en, sg, ov>>

vars == <<vendor, now, ticks, accessToken, tokenExpiresAt, keepAliveInterval,
          timers, due, task, calls, pg, sinceClose, unitVars>>

----------------------------------------------------------------------------
(* Bounds of the model *)
MaxCallers == 1   \* concurrent caller processes
MaxActive == 1    \* calls in progress at the same time
MaxCalls == 2     \* operations the caller starts in one behaviour
MaxTicks == 2     \* clock advances in one behaviour
MaxDepth == 5     \* frames of one call (nested requests and logins)
MaxToken == 2     \* distinct tokens the platform issues
MaxTimers == 2    \* timer ids of the runtime
MaxDisp == 3      \* business dispatches counted for one call
MaxIo == 2        \* transport calls counted for one call
StartMs == 1000   \* Date.now() when the client is constructed
MaxItems == 6     \* items the platform holds for a paged query
MaxPageSize == 3  \* items on one page
MaxScript == 5    \* answers the platform gives to one call that is made twice
MaxPad == 2       \* padding strings the RSA encryption can draw
MaxOverlap == 2   \* callers whose calls overlap
MaxBeyond == 2    \* page numbers are told apart up to DahuaMaxPages + MaxBeyond

(* Program constants *)
Null == 0                                   \* null token / timer handle
NullTime == 0 - 1                           \* tokenExpiresAt = null
NaN == 0 - 2                                \* Date.now() + (undefined - 60) * 1000
NoLife == 0 - 1                             \* token response without expires_in
maxRetries == 3
UniviewLifetimeMs == (48 * 3600 - 60) * 1000
KeepAliveIntervalMs == 24 * 60 * 60 * 1000
DahuaMarginS == 60

Vendors == {"hikvision", "dahua", "uniview"}
\* the clients that keep a session (token, expiry)
TokenVendors == {"dahua", "uniview"}
TimerProc == 0
Callers == 1..MaxCallers
\* the callers whose ensureAuthenticated() calls overlap
OverlapCallers == 1..MaxOverlap
Procs == Callers \cup OverlapCallers \cup {TimerProc}

----------------------------------------------------------------------------
(* Platform answers *)

\* The properties of a JSON body that the code reads:
\*   success  Dahua's flag (also read from login results)
\*   errCode  the vendor's business code: Uniview ErrCode (0 is success),
\*            Hikvision code ("0" is success)
\*   code     AccessCode present          key    publicKey is a usable PEM body
\*   token    AccessToken / access_token  life   expires_in, in seconds
\*   text     the vendor's message (msg / ErrMsg / desc) is present
\*   isNull   the body is the JSON value null, not an object
NoBody == [success |-> "absent", errCode |-> "absent", code |-> FALSE,
           key |-> FALSE, token |-> 0, life |-> NoLife, text |-> FALSE,
           isNull |-> FALSE]
NullBody == [NoBody EXCEPT !.isNull = TRUE]

\* a body the vendor marks as business success / business failure
OkBody(v) == IF v = "dahua" THEN [NoBody EXCEPT !.success = "true"]
                            ELSE [NoBody EXCEPT !.errCode = "zero"]
FailBody(v) == IF v = "dahua" THEN [NoBody EXCEPT !.success = "false"]
                              ELSE [NoBody EXCEPT !.errCode = "nonzero"]

\* error payloads, one per status
Payload(status) == IF status = 500 THEN [NoBody EXCEPT !.errCode = "nonzero"]
                   ELSE NoBody

Resp(status, body) == [status |-> status, body |-> body]
NoResponse == Resp(0, NoBody)

ErrorResponses == {Resp(s, Payload(s)) : s \in {401, 500}} \cup {NoResponse}

BizResponses(v) ==
  {Resp(200, OkBody(v)), Resp(200, FailBody(v)), Resp(403, Payload(403)),
   Resp(200, [OkBody(v) EXCEPT !.text = TRUE]), Resp(200, NullBody)} \cup ErrorResponses

\* POST /VIID/login: challenge, token (with or without ErrCode 0), refusal,
\* an empty object, and a body that carries a property named success
UniviewLoginBodies ==
  {[NoBody EXCEPT !.code = TRUE]} \cup
  {[NoBody EXCEPT !.token = t] : t \in 1..MaxToken} \cup
  {[NoBody EXCEPT !.token = 1, !.errCode = "zero", !.code = TRUE]} \cup
  {[NoBody EXCEPT !.errCode = "nonzero"], NoBody,
   [NoBody EXCEPT !.success = "true", !.code = TRUE]}

UniviewLoginResponses ==
  {Resp(200, b) : b \in UniviewLoginBodies} \cup
  {Resp(401, Payload(401)), Resp(500, Payload(500)), NoResponse}

\* GET oauth/public-key: key usable or not, success flag present or not
DahuaKeyBodies ==
  {[NoBody EXCEPT !.success = "true", !.key = k] : k \in BOOLEAN} \cup
  {[NoBody EXCEPT !.success = "false"], NoBody}

\* POST oauth/extend/token
DahuaTokenBodies ==
  {[NoBody EXCEPT !.success = "true", !.token = t, !.life = l] :
      t \in 1..MaxToken, l \in {NoLife, 60, 7200}} \cup
  {[NoBody EXCEPT !.success = "false"], NoBody}

Responses(v, what) ==
  CASE what = "rawlogin" -> UniviewLoginResponses
    [] what = "pubkey" -> {Resp(200, b) : b \in DahuaKeyBodies} \cup ErrorResponses
    [] what = "token" -> {Resp(200, b) : b \in DahuaTokenBodies} \cup ErrorResponses
    [] OTHER -> BizResponses(v)

----------------------------------------------------------------------------
(* Values a frame returns to the frame that awaits it *)

\* kind: the error class (AuthError, ApiError, NetworkError); status and body:
\* statusCode and responseData; from: the status of the transport failure that
\* handleResponseError classified (0: no response), NotTransport otherwise
NotTransport == 0 - 1
\* message: the message of a normalized response ("" on an axios response)
NoRet == [has |-> FALSE, ok |-> FALSE, kind |-> "", status |-> 0, body |-> NoBody,
          from |-> NotTransport, message |-> ""]
Resolved(status, body) ==
  [has |-> TRUE, ok |-> TRUE, kind |-> "", status |-> status, body |-> body,
   from |-> NotTransport, message |-> ""]
Rejected(kind, status, body) ==
  [has |-> TRUE, ok |-> FALSE, kind |-> kind, status |-> status, body |-> body,
   from |-> NotTransport, message |-> ""]

\* an Error that is no CameraError (TypeError, new Error(...)): kind "ERROR"
Thrown == Rejected("ERROR", 0, NoBody)

\* { success: true/false } as login() returns it
LoginResult(success) ==
  Resolved(0, [NoBody EXCEPT !.success = IF success THEN "true" ELSE "false"])

\* The axios config of a request, as far as the interceptors read it:
\*   method  as the entry point sets it
\*   params, data  "none" (undefined), "empty" ({}) or "set"
NoConfig == [method |-> "", params |-> "none", data |-> "none"]

Verbs == {"get", "post", "put", "delete"}

\* String.prototype.toUpperCase on a method name
Upper(m) ==
  CASE m \in {"get", "GET"} -> "GET"
    [] m \in {"post", "POST"} -> "POST"
    [] m \in {"put", "PUT"} -> "PUT"
    [] m \in {"delete", "DELETE"} -> "DELETE"
    [] OTHER -> m

\* "params = {}": a default parameter replaces an absent argument
OrEmpty(arg) == IF arg = "absent" THEN "empty" ELSE "set"

\* client.get(path, params) / post(path, data) / put(path, data) / delete(path):
\* httpClient.get(path, {params}), httpClient.post(path, data), ...
TypedConfig(verb, arg) ==
  CASE verb = "get" -> [method |-> "get", params |-> OrEmpty(arg), data |-> "none"]
    [] verb = "delete" -> [method |-> "delete", params |-> "none", data |-> "none"]
    [] OTHER -> [method |-> verb, params |-> "none", data |-> OrEmpty(arg)]

\* client.request(method, path, {params, data}): httpClient.request(config)
GenericConfig(method, params, data) ==
  [method |-> Upper(method), params |-> OrEmpty(params), data |-> OrEmpty(data)]

\* NoSig: nothing signed yet.  A URL is its path (with or without the leading
\* "/") and whether a query string follows.
NoSig == [method |-> "", url |-> [slash |-> TRUE, query |-> FALSE], body |-> ""]

\* generateAuthHeaders: bodyStr of requestConfig.data
BodyStr(data) == CASE data = "none" -> "" [] data = "empty" -> "{}" [] OTHER -> "json"

\* cleanUrl: url.startsWith("/") ? url : "/" + url
CleanUrl(url) == [url EXCEPT !.slash = TRUE]

\* a buildSignatureString that signs the body too
BuildSignatureString_WithBody(appKey, method, url, body, timestamp, nonce) ==
  [method |-> Upper(method), contentType |-> "application/json",
   accept |-> "application/json",
   headers |-> <<[key |-> appKey], [nonce |-> nonce], [timestamp |-> timestamp]>>,
   url |-> CleanUrl(url), body |-> body]

\* buildSignatureString(method, url, body, timestamp, nonce) of an auth object
\* with this.appKey: METHOD, content type, accept, the sorted x-ca headers
\* (x-ca-key < x-ca-nonce < x-ca-timestamp), the URL; body is not signed
BuildSignatureString(appKey, method, url, body, timestamp, nonce) ==
  [method |-> Upper(method), contentType |-> "application/json",
   accept |-> "application/json",
   headers |-> <<[key |-> appKey], [nonce |-> nonce], [timestamp |-> timestamp]>>,
   url |-> CleanUrl(url), body |-> ""]

\* HikvisionClient request interceptor: fullUrl carries the query when params
\* has keys; the method is upper-cased; requestConfig.data is handed on.
\* Signed is the request's part of the signed string (key, timestamp and
\* nonce left aside).
Signed(cfg) ==
  LET str == BuildSignatureString(0, Upper(cfg.method),
                                  [slash |-> TRUE, query |-> cfg.params = "set"],
                                  BodyStr(cfg.data), 0, 0)
  IN [method |-> str.method, url |-> str.url, body |-> str.body]

Frame(k, what, pc, retry, att) ==
  [k |-> k, what |-> what, pc |-> pc, retry |-> retry, att |-> att]

\* One asynchronous call.  st, op, stack, ret, res are the call itself; the
\* other fields record what it did (they are read by no operation):
\*   nDisp    dispatches of the caller's own request    io      transport calls
\*   nEnsure  logins started by ensureAuthenticated     first   status of the first answer
\*   nRelogin logins started by the 401/403 handler     between logins between dispatch 1 and 2
\*   restOk   every answer after the first was a success of its protocol step
\*   lastRetry how handleResponseError classifies the last failed answer to a retry
\*   hdr      token sent with the last dispatch          valid0  session valid when the call began
\*   got      the last answer to the caller's own request
\*   cfg      the axios config of the caller's own request
\*   sig      what the last dispatch's X-Ca-Signature signs (HikvisionClient)
IdleTask == [st |-> "idle", op |-> "", stack |-> <<>>, ret |-> NoRet, res |-> NoRet,
             nDisp |-> 0, nEnsure |-> 0, nRelogin |-> 0, io |-> 0,
             first |-> 0 - 1, between |-> 0, restOk |-> TRUE, lastRetry |-> "",
             hdr |-> Null, valid0 |-> FALSE, got |-> NoResponse,
             cfg |-> NoConfig, sig |-> NoSig]

\* transport calls are counted up to MaxIo
More(n) == IF n < MaxIo THEN n + 1 ELSE n

Top(t) == t.stack[Len(t.stack)]
SetTop(t, f) == [t EXCEPT !.stack[Len(t.stack)] = f]
Push(t, fs) == [t EXCEPT !.stack = t.stack \o fs]
Fits(t, n) == Len(t.stack) + n <= MaxDepth

\* the top frame completes with value v; the last frame's value is the call's result
Pop(t, v) ==
  IF Len(t.stack) = 1
  THEN [t EXCEPT !.stack = <<>>, !.st = "done", !.res = v, !.ret = NoRet]
  ELSE [t EXCEPT !.stack = SubSeq(t.stack, 1, Len(t.stack) - 1), !.ret = v]

----------------------------------------------------------------------------
(* Session state *)

Truthy(x) == x \notin {NullTime, NaN, 0}

\* isAuthenticated() that never finds the session valid
IsAuthenticatedAt_Never(v, tok, exp, t) == FALSE

\* DahuaClient.isAuthenticated / UniviewClient.isAuthenticated
IsAuthenticatedAt(v, tok, exp, t) ==
  IF v = "dahua"
  THEN /\ tok # Null
       /\ ~(Truthy(exp) /\ t >= exp)
  ELSE /\ tok # Null
       /\ Truthy(exp)
       /\ t < exp

IsAuthenticated == IsAuthenticatedAt(vendor, accessToken, tokenExpiresAt, now)

\* a valid session as the documentation defines it: a token is held and the
\* clock is strictly before a defined expiry
SessionValid ==
  /\ accessToken # Null
  /\ tokenExpiresAt \notin {NullTime, NaN}
  /\ now < tokenExpiresAt

\* ensureAuthenticated(): return at once when isAuthenticated(), else login.
\* HikvisionClient keeps no session: its request interceptor only signs.
EnsureNeedsLogin == vendor \in TokenVendors /\ ~IsAuthenticated

\* an expiry without the safety margin
DahuaExpiry_NoMargin(t, life) ==
  IF life = NoLife THEN NaN ELSE t + life * 1000

\* Date.now() + (expires_in - 60) * 1000; undefined expires_in gives NaN
DahuaExpiry(t, life) ==
  IF life = NoLife THEN NaN ELSE t + (life - DahuaMarginS) * 1000

UniviewExpiry(t) == t + UniviewLifetimeMs

\* processResponse: the vendor's business-failure flag in a 2xx body
BusinessFailure(v, body) ==
  IF v = "dahua" THEN body.success = "false" ELSE body.errCode = "nonzero"

\* processResponse applied to a 2xx response: "data && <flag>" guards the
\* business check, "data.msg || 'success'" then reads a property of data
ProcessResponse(v, status, body) ==
  IF body.isNull THEN Thrown
  ELSE IF BusinessFailure(v, body) THEN Rejected("API", status, body)
  ELSE [Resolved(status, body) EXCEPT !.message = IF body.text THEN "vendor" ELSE "success"]

\* handleResponseError that knows only 401 as an authentication failure
HandleResponseError_Only401(hasResponse, status, body) ==
  IF hasResponse
  THEN IF status = 401
       THEN Rejected("AUTH", 0, body)
       ELSE Rejected("API", status, body)
  ELSE Rejected("NETWORK", 0, NoBody)

\* handleResponseError: an axios error has a response, or only a request;
\* an error that is neither (a CameraError, a plain Error) is "unknown"
HandleResponseError(hasResponse, status, body) ==
  IF hasResponse
  THEN IF status = 401 \/ status = 403
       THEN Rejected("AUTH", 0, body)
       ELSE Rejected("API", status, body)
  ELSE Rejected("NETWORK", 0, NoBody)

\* handleResponseError on the axios error of a failed transport call
Classify(r) ==
  [HandleResponseError(r.status # 0, r.status, r.body) EXCEPT !.from = r.status]

\* handleResponseError on an error that is no axios error (a CameraError, an Error)
Reclassify == HandleResponseError(FALSE, 0, NoBody)

----------------------------------------------------------------------------
(* What one step does: the call's new record and the client's new fields *)

Eff(t, tok, exp, ka, tm, du) ==
  [t |-> t, tok |-> tok, exp |-> exp, ka |-> ka, tm |-> tm, du |-> du, fits |-> TRUE]
Keep(t) == Eff(t, accessToken, tokenExpiresAt, keepAliveInterval, timers, due)
Blocked(t) == [Keep(t) EXCEPT !.fits = FALSE]

Apply(p, e) ==
  /\ e.fits
  /\ task' = [task EXCEPT ![p] = e.t]
  /\ accessToken' = e.tok
  /\ tokenExpiresAt' = e.exp
  /\ keepAliveInterval' = e.ka
  /\ timers' = e.tm
  /\ due' = e.du

FreeTimer == CHOOSE i \in 1..MaxTimers : i \notin timers /\ \A j \in 1..(i - 1) : j \in timers

\* a startKeepAlive() without the check for an existing handle
StartKeepAlive_NoGuard(e) ==
  IF Cardinality(timers) >= MaxTimers THEN [e EXCEPT !.fits = FALSE]
  ELSE [e EXCEPT !.ka = FreeTimer, !.tm = timers \cup {FreeTimer},
                 !.du = now + KeepAliveIntervalMs]

\* startKeepAlive(): no-op when a handle exists, else setInterval(24 h)
StartKeepAlive(e) ==
  IF e.ka # Null THEN e
  ELSE IF Cardinality(timers) >= MaxTimers THEN [e EXCEPT !.fits = FALSE]
  ELSE [e EXCEPT !.ka = FreeTimer, !.tm = timers \cup {FreeTimer},
                 !.du = now + KeepAliveIntervalMs]

\* stopKeepAlive() that forgets the handle without clearInterval
StopKeepAlive_NoClear(e) ==
  IF e.ka # Null THEN [e EXCEPT !.ka = Null] ELSE e

\* stopKeepAlive(): clearInterval and forget the handle
StopKeepAlive(e) ==
  IF e.ka # Null THEN [e EXCEPT !.ka = Null, !.tm = e.tm \ {e.ka}] ELSE e

----------------------------------------------------------------------------
(* this.login() as the constructed client resolves it.                     *)
(* UniviewClient: setupAPIMethodProxy has bound the instance property      *)
(* login to UniviewAPI.login, which posts to /VIID/login through rawAxios  *)
(* and returns the body.  DahuaClient: the class's login(), whose first    *)
(* step is api.getPublicKey() -> client.get() -> httpClient.get().         *)

\* the methods of the API wrapper's prototype (DahuaAPI, UniviewAPI)
ApiMethods(v) ==
  CASE v = "uniview" ->
         {"getAccessCode", "login", "keepTokenAlive", "queryResources",
          "queryAllResources", "queryAllCameras", "queryAllOrgs", "queryThirdPartyIPC"}
    [] v = "dahua" ->
         {"getPublicKey", "getAccessToken", "getDevicesPage", "getOrganizationsPage",
          "getAllOrganizations", "startPlaybackByTime"}
    [] OTHER -> {}

\* the session operations the client classes define themselves
ClassMethods(v) ==
  CASE v = "uniview" ->
         {"login", "ensureAuthenticated", "isAuthenticated", "keepTokenAlive",
          "startKeepAlive", "stopKeepAlive", "close"}
    [] v = "dahua" -> {"login", "ensureAuthenticated", "isAuthenticated", "close"}
    [] OTHER -> {}

\* setupAPIMethodProxy: this[key] = this.api[key].bind(this.api) for every
\* function of the wrapper's prototype; an instance property shadows the
\* class's method of the same name
ThisMethod(v, name) == IF name \in ApiMethods(v) THEN "api" ELSE "class"

ThisLoginFrames(v) ==
  IF v = "uniview"
  THEN IF ThisMethod(v, "login") = "api"
       THEN <<Frame("apilogin", "rawlogin", "wait", FALSE, 0)>>
       ELSE <<Frame("ulogin", "rawlogin", "challenge", FALSE, 0)>>
  ELSE <<Frame("dlogin", "", "pubkey", FALSE, 0), Frame("req", "pubkey", "icpt", FALSE, 0)>>

\* transport calls already in flight when this.login() reaches its first await
ThisLoginIo(v) == IF v = "uniview" THEN 1 ELSE 0

\* a login starts: count it, and count it as "between" after the first dispatch
CountLogin(t, byHandler) ==
  [t EXCEPT !.nEnsure = IF byHandler THEN @ ELSE @ + 1,
            !.nRelogin = IF byHandler THEN @ + 1 ELSE @,
            !.between = IF t.nDisp = 1 THEN @ + 1 ELSE @,
            !.io = IF ThisLoginIo(vendor) = 1 THEN More(@) ELSE @]

CallThisLogin(t, byHandler) ==
  CountLogin(Push(t, ThisLoginFrames(vendor)), byHandler)

OwnRequest(f) == f.k = "req" /\ f.what \in {"biz", "touch"}

----------------------------------------------------------------------------
(* The caller's operations *)

\* room for one more call (a finished call counts until its result is taken)
Room == Cardinality({q \in Procs : task[q].st # "idle"}) < MaxActive

\* close() has returned and the caller has started no operation since
Quiet == sinceClose \in {"quiet", "quiet2"}

Started == IF Quiet THEN "used" ELSE sinceClose

NewTask(op, stack) ==
  [IdleTask EXCEPT !.st = "run", !.op = op, !.stack = stack, !.valid0 = SessionValid]

\* a call of get / post / put / delete / request: the entry point builds the
\* config and awaits this.httpClient; the request interceptor runs first
RequestTask(cfg) ==
  [NewTask("request", <<Frame("req", "biz", "icpt", FALSE, 0)>>) EXCEPT !.cfg = cfg]

\* client.get(path)
CallRequest(p) ==
  /\ p \in Callers
  /\ task[p].st = "idle"
  /\ calls < MaxCalls
  /\ Room
  /\ task' = [task EXCEPT ![p] = RequestTask(TypedConfig("get", "absent"))]
  /\ calls' = calls + 1
  /\ sinceClose' = Started
  /\ UNCHANGED <<unitVars, pg, vendor, now, ticks, accessToken, tokenExpiresAt, keepAliveInterval, timers, due>>

\* The typed wrappers that check their input: UniviewAPI.queryResources
\* (key: options.org) and HikvisionAPI.getCamera, getCameraPreviewUrl (key:
\* the camera code).  given: an argument was passed; key, condition: the
\* field is truthy.
Wrappers(v) ==
  CASE v = "uniview" -> {"queryResources"}
    [] v = "hikvision" -> {"getCamera", "getCameraPreviewUrl"}
    [] OTHER -> {}

WrapperArgs(w) ==
  {a \in [given : BOOLEAN, key : BOOLEAN, condition : BOOLEAN] :
     /\ ~a.given => ~a.key /\ ~a.condition
     /\ w # "queryResources" => ~a.condition}

\* new ParameterError(message, parameter, value)
ParameterError == Rejected("PARAMETER", 0, NoBody)

\* the input checks at the head of a wrapper: what they throw (NoRet: nothing).
\* queryResources(options = {}) and getCamera(cameraIndexCode) test the value;
\* getCameraPreviewUrl(options) reads options.cameraIndexCode of the argument
\* as passed, a TypeError when there is none.
WrapperCheck(w, a) ==
  CASE w = "queryResources" ->
         IF ~a.key THEN ParameterError
         ELSE IF ~a.condition THEN ParameterError ELSE NoRet
    [] w = "getCamera" -> IF ~a.key THEN ParameterError ELSE NoRet
    [] OTHER -> IF ~a.given THEN Thrown
                ELSE IF ~a.key THEN ParameterError ELSE NoRet

\* the call of a wrapper: it throws from its checks, or awaits
\* this.client.get(path, {params}) / this.client.post(path, params), whose
\* outcome is its own
WrapperTask(w, a) ==
  IF WrapperCheck(w, a) # NoRet
  THEN [NewTask("wrapper", <<>>) EXCEPT !.st = "done", !.res = WrapperCheck(w, a)]
  ELSE RequestTask(TypedConfig(IF w = "queryResources" THEN "get" ELSE "post", "set"))

\* api.queryResources(options) / api.getCamera(code) / api.getCameraPreviewUrl(options)
CallWrapper(p) ==
  /\ p \in Callers
  /\ task[p].st = "idle"
  /\ calls < MaxCalls
  /\ Room
  /\ ~en.called
  /\ task' = [task EXCEPT ![p] = WrapperTask(en.wr, en.arg)]
  /\ en' = [en EXCEPT !.called = TRUE]
  /\ calls' = calls + 1
  /\ sinceClose' = Started
  /\ UNCHANGED <<ctor, sg, ov, pg, vendor, now, ticks, accessToken, tokenExpiresAt,
                 keepAliveInterval, timers, due>>

\* ensureAuthenticated() up to its first await: return at once, or call
\* this.login() and await it
EnsureTask ==
  IF ~EnsureNeedsLogin
  THEN [NewTask("ensure", <<>>) EXCEPT !.st = "done", !.res = LoginResult(TRUE)]
  ELSE CallThisLogin(NewTask("ensure", <<Frame("ens", "", "login", FALSE, 0)>>), FALSE)

\* client.ensureAuthenticated()
CallEnsure(p) ==
  /\ vendor \in TokenVendors
  /\ p \in Callers
  /\ task[p].st = "idle"
  /\ calls < MaxCalls
  /\ Room
  /\ task' = [task EXCEPT ![p] = EnsureTask]
  /\ calls' = calls + 1
  /\ sinceClose' = Started
  /\ UNCHANGED <<unitVars, pg, vendor, now, ticks, accessToken, tokenExpiresAt, keepAliveInterval, timers, due>>

\* the login() method of the class itself: DahuaClient.login as client.login();
\* UniviewClient.login, which the instance property shadows, called on the
\* prototype.  It clears the old token and posts the challenge request.
CallLogin(p) ==
  /\ vendor \in TokenVendors
  /\ p \in Callers
  /\ task[p].st = "idle"
  /\ calls < MaxCalls
  /\ Room
  /\ IF vendor = "uniview"
     THEN /\ task' = [task EXCEPT ![p] =
                [NewTask("login", <<Frame("ulogin", "rawlogin", "challenge", FALSE, 0)>>)
                   EXCEPT !.io = 1]]
          /\ accessToken' = Null
          /\ tokenExpiresAt' = NullTime
     ELSE /\ task' = [task EXCEPT ![p] = NewTask("login", ThisLoginFrames("dahua"))]
          /\ UNCHANGED <<accessToken, tokenExpiresAt>>
  /\ calls' = calls + 1
  /\ sinceClose' = Started
  /\ UNCHANGED <<unitVars, pg, vendor, now, ticks, keepAliveInterval, timers, due>>

\* close(): stopKeepAlive (Uniview), then forget the session
Close ==
  /\ vendor \in TokenVendors
  /\ LET e == StopKeepAlive(Keep(IdleTask)) IN
       /\ keepAliveInterval' = e.ka
       /\ timers' = e.tm
  /\ accessToken' = Null
  /\ tokenExpiresAt' = NullTime
  /\ sinceClose' = IF Quiet THEN "quiet2" ELSE "quiet"
  /\ UNCHANGED <<unitVars, pg, vendor, now, ticks, due, task, calls>>

\* the caller takes the result of a finished call
Collect(p) ==
  /\ task[p].st = "done"
  /\ task' = [task EXCEPT ![p] = IdleTask]
  /\ UNCHANGED <<unitVars, pg, vendor, now, ticks, accessToken, tokenExpiresAt, keepAliveInterval,
                 timers, due, calls, sinceClose>>

----------------------------------------------------------------------------
(* The request pipeline *)

Running(p) == task[p].st = "run" /\ ~task[p].ret.has

\* request interceptor, first half: await this.ensureAuthenticated()
Intercept(p) ==
  /\ Running(p)
  /\ LET t == task[p]
         f == Top(t)
     IN /\ f.k = "req" /\ f.pc = "icpt"
        /\ IF ~EnsureNeedsLogin
           THEN task' = [task EXCEPT ![p] = SetTop(t, [f EXCEPT !.pc = "attach"])]
           ELSE /\ Fits(t, Len(ThisLoginFrames(vendor)))
                /\ task' = [task EXCEPT ![p] =
                     CallThisLogin(SetTop(t, [f EXCEPT !.pc = "ensure"]), FALSE)]
  /\ UNCHANGED <<unitVars, pg, vendor, now, ticks, accessToken, tokenExpiresAt, keepAliveInterval,
                 timers, due, calls, sinceClose>>

\* the Authorization header the interceptor sets (Null: none)
AuthHeader ==
  IF vendor = "uniview" THEN accessToken
  ELSE IF vendor = "dahua" /\ IsAuthenticated THEN accessToken ELSE Null

\* request interceptor, second half, and dispatchRequest
Attach(p) ==
  /\ Running(p)
  /\ LET t == task[p]
         f == Top(t)
     IN /\ f.k = "req" /\ f.pc = "attach"
        /\ OwnRequest(f) => t.nDisp < MaxDisp
        /\ task' = [task EXCEPT ![p] =
             [SetTop(t, [f EXCEPT !.pc = "wait"]) EXCEPT
                !.hdr = AuthHeader,
                !.sig = IF vendor = "hikvision" /\ OwnRequest(f) THEN Signed(t.cfg) ELSE @,
                !.io = More(@),
                !.nDisp = IF OwnRequest(f) THEN @ + 1 ELSE @]]
  /\ UNCHANGED <<unitVars, pg, vendor, now, ticks, accessToken, tokenExpiresAt, keepAliveInterval,
                 timers, due, calls, sinceClose>>

\* an answer that is the success of its protocol step
Good(v, what, r) ==
  /\ r.status = 200
  /\ CASE what = "rawlogin" ->
            r.body.errCode # "nonzero" /\ (r.body.code \/ r.body.token # 0)
       [] what = "pubkey" -> r.body.success = "true" /\ r.body.key
       [] what = "token" ->
            r.body.success = "true" /\ r.body.token # 0 /\ r.body.life > DahuaMarginS
       [] OTHER -> r.body = OkBody(v)

\* what the call did, updated on an answer r to the top frame f
Noted(t, f, r) ==
  LET firstOwn == OwnRequest(f) /\ t.first = 0 - 1 IN
  [t EXCEPT !.first = IF firstOwn THEN r.status ELSE @,
            !.restOk = IF firstOwn THEN @ ELSE @ /\ Good(vendor, f.what, r),
            !.lastRetry = IF OwnRequest(f) /\ f.retry /\ r.status # 200
                          THEN Classify(r).kind ELSE @,
            !.got = IF OwnRequest(f) THEN r ELSE @]

\* a response interceptor that renews the expiry on a successful keep-alive
RespondReq_Extends(t, f, r) ==
  IF r.status = 200
  THEN Eff(Pop(t, IF f.retry THEN Resolved(200, r.body)
                  ELSE ProcessResponse(vendor, 200, r.body)),
           accessToken,
           IF f.what = "touch" THEN UniviewExpiry(now) ELSE tokenExpiresAt,
           keepAliveInterval, timers, due)
  ELSE IF vendor \in TokenVendors /\ (r.status = 401 \/ r.status = 403)
  THEN IF Fits(t, Len(ThisLoginFrames(vendor)))
       THEN Keep(CallThisLogin(SetTop(t, [f EXCEPT !.pc = "relogin", !.att = r.status]), TRUE))
       ELSE Blocked(t)
  ELSE Keep(Pop(t, Classify(r)))

\* response interceptor of httpClient
RespondReq(t, f, r) ==
  IF r.status = 200
  THEN Keep(Pop(t, IF f.retry THEN Resolved(200, r.body)
                   ELSE ProcessResponse(vendor, 200, r.body)))
  ELSE IF vendor \in TokenVendors /\ (r.status = 401 \/ r.status = 403)
  THEN IF Fits(t, Len(ThisLoginFrames(vendor)))
       THEN Keep(CallThisLogin(SetTop(t, [f EXCEPT !.pc = "relogin", !.att = r.status]), TRUE))
       ELSE Blocked(t)
  ELSE Keep(Pop(t, Classify(r)))

\* UniviewAPI.login -> client.rawPost: rawAxios response interceptor, processResponse
RespondApiLogin(t, f, r) ==
  Keep(Pop(t, IF r.status = 200 THEN ProcessResponse(vendor, 200, r.body) ELSE Classify(r)))

\* UniviewClient.login, catch block: the wait before the next attempt, in ms
BackoffMs(attempts) == 1000 * attempts

\* a login that allows one retry more
LoginCaught_OneMore(t, f) ==
  IF f.att + 1 > maxRetries + 1
  THEN Keep(Pop(t, LoginResult(FALSE)))
  ELSE Keep(SetTop(t, [f EXCEPT !.pc = "backoff", !.att = f.att + 1]))

\* a login that stops the keep-alive timer when it gives up
LoginCaught_Stops(t, f) ==
  IF f.att + 1 > maxRetries
  THEN StopKeepAlive(Keep(Pop(t, LoginResult(FALSE))))
  ELSE Keep(SetTop(t, [f EXCEPT !.pc = "backoff", !.att = f.att + 1]))

\* UniviewClient.login, catch block: count the attempt, give up or back off
LoginCaught(t, f) ==
  IF f.att + 1 > maxRetries
  THEN Keep(Pop(t, LoginResult(FALSE)))
  ELSE Keep(SetTop(t, [f EXCEPT !.pc = "backoff", !.att = f.att + 1]))

\* UniviewClient.login, success branches: store the token and its expiry, start keep-alive
LoginStored(t, body) ==
  StartKeepAlive(Eff(Pop(t, LoginResult(TRUE)), body.token, UniviewExpiry(now),
                     keepAliveInterval, timers, due))

\* a login that submits the signature whenever the answer carries an access code
RespondLogin_AlwaysSubmit(t, f, r) ==
  LET raw == IF r.status = 200 THEN ProcessResponse(vendor, 200, r.body) ELSE Classify(r) IN
  IF ~raw.ok THEN LoginCaught(t, f)
  ELSE IF f.pc = "challenge"
  THEN IF r.body.code
       THEN Keep([SetTop(t, [f EXCEPT !.pc = "submit"]) EXCEPT !.io = More(@)])
       ELSE IF r.body.token # 0 THEN LoginStored(t, r.body)
       ELSE LoginCaught(t, f)
  ELSE IF r.body.errCode \in {"absent", "zero"} /\ r.body.token # 0
       THEN LoginStored(t, r.body)
       ELSE LoginCaught(t, f)

\* UniviewClient.login on the answer to its challenge / signature request
RespondLogin(t, f, r) ==
  LET raw == IF r.status = 200 THEN ProcessResponse(vendor, 200, r.body) ELSE Classify(r) IN
  IF ~raw.ok THEN LoginCaught(t, f)
  ELSE IF f.pc = "challenge"
  THEN IF r.body.code /\ r.body.token = 0
       THEN Keep([SetTop(t, [f EXCEPT !.pc = "submit"]) EXCEPT !.io = More(@)])
       ELSE IF r.body.token # 0 THEN LoginStored(t, r.body)
       ELSE LoginCaught(t, f)
  ELSE IF r.body.errCode \in {"absent", "zero"} /\ r.body.token # 0
       THEN LoginStored(t, r.body)
       ELSE LoginCaught(t, f)

\* the top frame awaits a transport call
Awaiting(p) == Running(p) /\ Top(task[p]).pc \in {"wait", "challenge", "submit"}

\* the awaited transport call ends with answer r
Answer(p, r) ==
  LET t == task[p]
      f == Top(t)
      t1 == Noted(t, f, r)
  IN Apply(p, CASE f.k = "req" -> RespondReq(t1, f, r)
                [] f.k = "apilogin" -> RespondApiLogin(t1, f, r)
                [] OTHER -> RespondLogin(t1, f, r))

\* the platform answers the transport call the top frame awaits (or does not answer)
ServerRespond(p) ==
  /\ Awaiting(p)
  /\ \E r \in Responses(vendor, Top(task[p]).what) : Answer(p, r)
  /\ UNCHANGED <<unitVars, pg, vendor, now, ticks, calls, sinceClose>>

\* httpClient request whose awaited ensureAuthenticated / login / retry has returned
ResumeReq(t, f, v) ==
  CASE f.pc = "ensure" ->
         \* a rejected request interceptor reaches the response error handler
         IF v.ok THEN Keep(SetTop(t, [f EXCEPT !.pc = "attach"]))
         ELSE Keep(Pop(t, Reclassify))
    [] f.pc = "relogin" ->
         IF ~v.ok THEN Keep(Pop(t, v))
         ELSE IF v.body.success = "true"
         THEN IF Fits(t, 1)
              THEN Keep(Push(SetTop(t, [f EXCEPT !.pc = "retry"]),
                             <<Frame("req", f.what, "icpt", TRUE, 0)>>))
              ELSE Blocked(t)
         ELSE Keep(Pop(t, Classify(Resp(f.att, Payload(f.att)))))
    [] OTHER ->
         \* f.pc = "retry": return retryResponse, or classify retryError again
         IF v.ok
         THEN Keep(Pop(t, IF f.retry THEN v ELSE ProcessResponse(vendor, v.status, v.body)))
         ELSE Keep(Pop(t, Reclassify))

\* DahuaClient.login, success branch: store the token and its expiry
DahuaLoginStored(t, body) ==
  Eff(Pop(t, LoginResult(TRUE)), body.token, DahuaExpiry(now, body.life),
      keepAliveInterval, timers, due)

\* DahuaClient.login after api.getPublicKey() / api.getAccessToken() returned
ResumeDahuaLogin(t, f, v) ==
  IF f.pc = "pubkey"
  THEN IF v.ok /\ v.body.success = "true" /\ v.body.key
       THEN IF Fits(t, 1)
            THEN Keep(Push(SetTop(t, [f EXCEPT !.pc = "token"]),
                           <<Frame("req", "token", "icpt", FALSE, 0)>>))
            ELSE Blocked(t)
       ELSE Keep(Pop(t, LoginResult(FALSE)))
  ELSE IF v.ok /\ v.body.success = "true"
       THEN DahuaLoginStored(t, v.body)
       ELSE Keep(Pop(t, LoginResult(FALSE)))

\* the frame below continues with the value the frame above returned
Resume(p) ==
  /\ task[p].st = "run"
  /\ task[p].ret.has
  /\ LET v == task[p].ret
         t == [task[p] EXCEPT !.ret = NoRet]
         f == Top(t)
     IN Apply(p, CASE f.k = "req" -> ResumeReq(t, f, v)
                   [] f.k = "dlogin" -> ResumeDahuaLogin(t, f, v)
                   [] OTHER -> Keep(Pop(t, v)))
  /\ UNCHANGED <<unitVars, pg, vendor, now, ticks, calls, sinceClose>>

\* UniviewClient.login: the setTimeout(1000 * attempts) elapses, next attempt
BackoffDone(p) ==
  /\ Running(p)
  /\ LET t == task[p]
         f == Top(t)
     IN /\ f.k = "ulogin" /\ f.pc = "backoff"
        /\ task' = [task EXCEPT ![p] =
             [SetTop(t, [f EXCEPT !.pc = "challenge"]) EXCEPT !.io = More(@)]]
  /\ UNCHANGED <<unitVars, pg, vendor, now, ticks, accessToken, tokenExpiresAt, keepAliveInterval,
                 timers, due, calls, sinceClose>>

----------------------------------------------------------------------------
(* One request made twice on clients in the same session state and against  *)
(* the same platform behaviour: through the typed entry (get, post, put,    *)
(* delete), then through request(method, path, options).                    *)

\* the one caller that makes the two calls, one after the other
EntryCaller == CHOOSE p \in Callers : \A q \in Callers : p <= q

\* the session fields of a client
Session == [tok |-> accessToken, exp |-> tokenExpiresAt, ka |-> keepAliveInterval,
            tm |-> timers, du |-> due]

\* phase: "off"; "typed" (the typed call runs); "generic" (the generic call runs)
\* verb, arg: the typed method and whether its params / data argument is given
\* given: the method name as the caller passes it to request()
\* snap: the session both calls start in       script: the answers the typed
\* call got, in order       pos: the next answer of the script
\* a, after: the typed call's record and the session it left
NoEntry == [phase |-> "off", verb |-> "get", arg |-> "absent", given |-> "get",
            snap |-> [tok |-> Null, exp |-> NullTime, ka |-> Null, tm |-> {}, du |-> 0],
            script |-> <<>>, pos |-> 1, a |-> IdleTask,
            after |-> [tok |-> Null, exp |-> NullTime, ka |-> Null, tm |-> {}, du |-> 0]]

\* the sessions a client can be in at StartMs: none, or the one login() stored
EntrySessions(v) ==
  {[tok |-> Null, exp |-> NullTime, ka |-> Null, tm |-> {}, du |-> 0]} \cup
  (IF v = "dahua"
   THEN {[tok |-> 1, exp |-> DahuaExpiry(StartMs, 7200), ka |-> Null, tm |-> {}, du |-> 0]}
   ELSE IF v = "uniview"
   THEN {[tok |-> 1, exp |-> UniviewExpiry(StartMs), ka |-> 1, tm |-> {1},
          du |-> StartMs + KeepAliveIntervalMs]}
   ELSE {})

\* the platform's answers in the two runs: success, business failure, 401,
\* no response; to a login call the token (with or without a success
\* property), a refusal; a usable key or none; a token with a lifetime or none
EntryAnswers(v, what) ==
  CASE what = "rawlogin" ->
         {Resp(200, [NoBody EXCEPT !.token = 1]),
          Resp(200, [NoBody EXCEPT !.success = "true", !.code = TRUE]),
          Resp(401, Payload(401))}
    [] what = "pubkey" ->
         {Resp(200, [NoBody EXCEPT !.success = "true", !.key = TRUE]), Resp(500, Payload(500))}
    [] what = "token" ->
         {Resp(200, [NoBody EXCEPT !.success = "true", !.token = 2, !.life = 7200]),
          Resp(200, [NoBody EXCEPT !.success = "false"])}
    [] OTHER -> {Resp(200, OkBody(v)), Resp(200, FailBody(v)), Resp(200, NullBody),
                 Resp(401, Payload(401)), NoResponse}

\* client.get(path, params) / post(path, data) / put(path, data) / delete(path)
EntryTyped(p) ==
  /\ en.phase = "typed"
  /\ task[p].st = "idle"
  /\ task' = [task EXCEPT ![p] = RequestTask(TypedConfig(en.verb, en.arg))]
  /\ UNCHANGED <<unitVars, pg, vendor, now, ticks, accessToken, tokenExpiresAt,
                 keepAliveInterval, timers, due, calls, sinceClose>>

\* the same call as client.request(method, path, {params}) / {data} / {}, made
\* on a client in the session the typed call started in
EntryGeneric(p) ==
  /\ en.phase = "typed"
  /\ task[p].st = "done"
  /\ en' = [en EXCEPT !.phase = "generic", !.a = task[p], !.after = Session]
  /\ task' = [task EXCEPT ![p] =
       RequestTask(GenericConfig(en.given,
                                 IF en.verb = "get" THEN en.arg ELSE "absent",
                                 IF en.verb \in {"post", "put"} THEN en.arg ELSE "absent"))]
  /\ accessToken' = en.snap.tok
  /\ tokenExpiresAt' = en.snap.exp
  /\ keepAliveInterval' = en.snap.ka
  /\ timers' = en.snap.tm
  /\ due' = en.snap.du
  /\ UNCHANGED <<ctor, sg, ov, pg, vendor, now, ticks, calls, sinceClose>>

\* the platform answers: anything to the typed call; to the generic call what
\* it answered to the same transport call of the typed one
EntryRespond(p) ==
  /\ en.phase # "off"
  /\ Awaiting(p)
  /\ LET what == Top(task[p]).what
         told == /\ en.phase = "generic"
                 /\ en.pos <= Len(en.script)
                 /\ en.script[en.pos].what = what
     IN \E r \in EntryAnswers(vendor, what) :
          /\ en.phase = "typed" => Len(en.script) < MaxScript
          /\ told => r = en.script[en.pos].r
          /\ Answer(p, r)
          /\ en' = IF en.phase = "typed"
                   THEN [en EXCEPT !.script = Append(@, [what |-> what, r |-> r])]
                   ELSE [en EXCEPT !.pos = @ + 1]
  /\ UNCHANGED <<ctor, sg, ov, pg, vendor, now, ticks, calls, sinceClose>>

----------------------------------------------------------------------------
(* Authentication material: HikvisionAuth, DahuaAuth, UniviewAuth           *)

\* crypto.createHmac("sha256", secret).update(data).digest("base64")
GenerateSignature(appSecret, data) == [hmac |-> data, key |-> appSecret]

\* a generateAuthHeaders whose signature covers bodyStr as well
AuthHeaders_SignsBody(appKey, appSecret, method, url, body, timestamp, nonce) ==
  [key |-> appKey, nonce |-> nonce, timestamp |-> timestamp,
   signature |-> GenerateSignature(appSecret,
                   BuildSignatureString_WithBody(appKey, method, url, body,
                                                 timestamp, nonce)),
   signedHeaders |-> "x-ca-key,x-ca-nonce,x-ca-timestamp"]

\* the headers generateAuthHeaders returns for the timestamp and nonce it drew
AuthHeaders(appKey, appSecret, method, url, body, timestamp, nonce) ==
  [key |-> appKey, nonce |-> nonce, timestamp |-> timestamp,
   signature |-> GenerateSignature(appSecret,
                   BuildSignatureString(appKey, method, url, body, timestamp, nonce)),
   signedHeaders |-> "x-ca-key,x-ca-nonce,x-ca-timestamp"]

Md5(x) == [md5 |-> x]
Base64(x) == [base64 |-> x]

\* a calculateLoginSignature whose digest depends on the calls made before
CalculateLoginSignature_Counted(usernameBase64, accessCode, passwordMd5) ==
  Md5(<<usernameBase64, accessCode, passwordMd5, sg.n>>)

\* md5(usernameBase64 + accessCode + passwordMd5), hex
CalculateLoginSignature(usernameBase64, accessCode, passwordMd5) ==
  Md5(<<usernameBase64, accessCode, passwordMd5>>)

\* UniviewAuth.buildLoginData(accessCode)
BuildLoginData(username, password, accessCode) ==
  [UserName |-> username, AccessCode |-> accessCode,
   LoginSignature |-> CalculateLoginSignature(Base64(username), accessCode, Md5(password))]

\* RSAES-PKCS1-v1_5 encryption: the encryption block is 00 02 PS 00 M with PS
\* drawn at random for every call; the ciphertext is a function of key, M, PS
RsaEncrypt(password, publicKey, ps) ==
  Base64([rsa |-> publicKey, m |-> password, ps |-> ps])

\* DahuaAuth.buildAuthData(publicKey); ps: the padding forge draws
BuildAuthData(username, password, clientId, clientSecret, publicKey, ps) ==
  [grant_type |-> "password", username |-> username,
   password |-> RsaEncrypt(password, publicKey, ps),
   client_id |-> clientId, client_secret |-> clientSecret, public_key |-> publicKey]

\* n: computations made    in: the inputs    out: the material computed
NoSign == [n |-> 0, in |-> <<>>, out |-> <<>>]

\* the inputs of one computation
SignInputs(v) ==
  CASE v = "hikvision" ->
         [appKey : {1}, appSecret : 1..2, method : {"get", "POST"},
          url : [slash : BOOLEAN, query : BOOLEAN], body : {"", "json"},
          timestamp : 1..2, nonce : 1..2]
    [] v = "dahua" ->
         [username : {1}, password : 1..2, clientId : {1}, clientSecret : 1..2,
          publicKey : 1..2]
    [] OTHER -> [username : 1..2, password : 1..2, accessCode : 1..2]

\* the material of vendor v from inputs in; ps is drawn by the RSA padding
Material(v, in, ps) ==
  CASE v = "hikvision" ->
         AuthHeaders(in.appKey, in.appSecret, in.method, in.url, in.body,
                     in.timestamp, in.nonce)
    [] v = "dahua" ->
         BuildAuthData(in.username, in.password, in.clientId, in.clientSecret,
                       in.publicKey, ps)
    [] OTHER -> BuildLoginData(in.username, in.password, in.accessCode)

\* the material is computed from the inputs once more
Sign ==
  /\ sg.n < 2
  /\ \E ps \in 1..MaxPad :
       sg' = [sg EXCEPT !.n = @ + 1, !.out = Append(@, Material(vendor, sg.in, ps))]
  /\ UNCHANGED <<ctor, en, ov, pg, vendor, now, ticks, accessToken, tokenExpiresAt,
                 keepAliveInterval, timers, due, task, calls, sinceClose>>

\* a verifySignature that recomputes the signature over the body as well
VerifySignature_SignsBody(appKey, appSecret, method, url, body, timestamp, nonce, expected) ==
  GenerateSignature(appSecret,
                    BuildSignatureString_WithBody(appKey, method, url, body,
                                                  timestamp, nonce))
    = expected

\* verifySignature(method, url, body, timestamp, nonce, expectedSignature) of
\* an auth object with this.appKey and this.appSecret
VerifySignature(appKey, appSecret, method, url, body, timestamp, nonce, expected) ==
  GenerateSignature(appSecret,
                    BuildSignatureString(appKey, method, url, body, timestamp, nonce))
    = expected

\* bodies: the body of each request signed    ver: the verifications made
NoVerify == [n |-> 0, in |-> <<>>, out |-> <<>>, bodies |-> <<>>, ver |-> <<>>]

\* the request bodies generateAuthHeaders is handed
Bodies == {"", "json"}

\* the signatures a verifier may be shown for the timestamp and nonce of in:
\* those of any method, URL and secret
Candidates(in) ==
  {AuthHeaders(w.appKey, w.appSecret, w.method, w.url, w.body, w.timestamp,
               w.nonce).signature :
     w \in {x \in SignInputs("hikvision") :
              x.timestamp = in.timestamp /\ x.nonce = in.nonce}}

\* generateAuthHeaders(method, url, body) of one auth object, for the
\* timestamp and nonce in sg.in and any body
SignRequest ==
  /\ sg.n < 2
  /\ \E body \in Bodies :
       sg' = [sg EXCEPT !.n = @ + 1,
                        !.out = Append(@, AuthHeaders(sg.in.appKey, sg.in.appSecret,
                                                      sg.in.method, sg.in.url, body,
                                                      sg.in.timestamp, sg.in.nonce)),
                        !.bodies = Append(@, body)]
  /\ UNCHANGED <<ctor, en, ov, pg, vendor, now, ticks, accessToken, tokenExpiresAt,
                 keepAliveInterval, timers, due, task, calls, sinceClose>>

\* verifySignature(...) of the same auth object, once a signature was emitted
Verify ==
  /\ sg.n = 1
  /\ sg.ver = <<>>
  /\ \E w \in SignInputs("hikvision"), s \in Candidates(sg.in) :
       /\ w.appKey = sg.in.appKey
       /\ w.appSecret = sg.in.appSecret
       /\ sg' = [sg EXCEPT !.ver =
                   <<[in |-> w, s |-> s,
                      ok |-> VerifySignature(w.appKey, w.appSecret, w.method, w.url,
                                             w.body, w.timestamp, w.nonce, s)]>>]
  /\ UNCHANGED <<ctor, en, ov, pg, vendor, now, ticks, accessToken, tokenExpiresAt,
                 keepAliveInterval, timers, due, task, calls, sinceClose>>

----------------------------------------------------------------------------
(* Overlapping ensureAuthenticated() calls of one client                     *)

\* the token answers on which login() takes its success branch
TokenAnswers(v) ==
  IF v = "dahua"
  THEN {b \in DahuaTokenBodies : b.success = "true"}
  ELSE {b \in UniviewLoginBodies : b.token # 0 /\ b.errCode # "nonzero"}

\* tok: the token of the last login answer in which the platform granted a
\* session (Null: none yet)      at: Date.now() when that answer arrived
\* life: its expires_in (Dahua)
NoOverlap == [tok |-> Null, at |-> 0, life |-> NoLife]

\* the answer grants a session: the token answer login() stores
Grants(v, what, r) ==
  /\ r.status = 200
  /\ IF v = "dahua"
     THEN what = "token" /\ r.body \in TokenAnswers(v)
     ELSE what = "rawlogin" /\ r.body \in TokenAnswers(v)

\* a caller calls ensureAuthenticated() while the other's call may be in flight
OverlapEnsure(p) ==
  /\ p \in OverlapCallers
  /\ task[p].st = "idle"
  /\ calls < MaxOverlap
  /\ task' = [task EXCEPT ![p] = EnsureTask]
  /\ calls' = calls + 1
  /\ UNCHANGED <<unitVars, pg, vendor, now, ticks, accessToken, tokenExpiresAt,
                 keepAliveInterval, timers, due, sinceClose>>

\* the platform answers a transport call of one of the overlapping calls
OverlapRespond(p) ==
  /\ Awaiting(p)
  /\ LET what == Top(task[p]).what IN
       \E r \in Responses(vendor, what) :
         /\ Answer(p, r)
         /\ ov' = IF Grants(vendor, what, r)
                  THEN [tok |-> r.body.token, at |-> now, life |-> r.body.life]
                  ELSE ov
  /\ UNCHANGED <<ctor, en, sg, pg, vendor, now, ticks, calls, sinceClose>>

----------------------------------------------------------------------------
(* Time and the keep-alive timer *)

TimeSteps == {KeepAliveIntervalMs, UniviewLifetimeMs}

Tick ==
  /\ ticks < MaxTicks
  /\ \E dt \in TimeSteps : now' = now + dt
  /\ ticks' = ticks + 1
  /\ UNCHANGED <<unitVars, pg, vendor, accessToken, tokenExpiresAt, keepAliveInterval, timers, due,
                 task, calls, sinceClose>>

\* the setInterval callback: await this.keepTokenAlive(), which the instance
\* resolves to UniviewAPI.keepTokenAlive -> client.get(TOKEN_KEEP_ALIVE)
TimerFire ==
  /\ timers # {}
  /\ now >= due
  /\ task[TimerProc].st = "idle"
  /\ Room
  /\ task' = [task EXCEPT ![TimerProc] =
       [NewTask("tick", <<Frame("req", "touch", "icpt", FALSE, 0)>>)
          EXCEPT !.cfg = TypedConfig("get", "absent")]]
  /\ due' = due + KeepAliveIntervalMs
  /\ UNCHANGED <<unitVars, pg, vendor, now, ticks, accessToken, tokenExpiresAt, keepAliveInterval,
                 timers, calls, sinceClose>>

----------------------------------------------------------------------------
(* The pagination aggregators: DahuaAPI.getAllOrganizations (vendor "dahua") *)
(* and UniviewAPI.queryAllResources (vendor "uniview").  The platform holds  *)
(* the items 1..T and answers a page request with the items of the requested *)
(* window and, when it reports one, the total T.                             *)

\* pc: "idle", "fetch" (a page request is outstanding) or "done"
\* T, size, reported: the platform's item count, the page length, whether
\*   the answers carry the total
\* page: pageNum (Dahua, from 1) / currentPage (Uniview, from 0)
\* all: allOrgs / allItems      reqs: page requests made so far
NoPaging == [pc |-> "idle", T |-> 0, size |-> 1, reported |-> TRUE,
             page |-> 0, all |-> <<>>, reqs |-> 0]

\* the items lo+1 .. lo+n of the platform's list (fewer at its end)
Window(T, lo, n) ==
  IF lo >= T THEN <<>>
  ELSE [i \in 1..(IF lo + n <= T THEN n ELSE T - lo) |-> lo + i]

\* getOrganizationsPage({pageNum, pageSize}): rows before the requested page
DahuaOffset(pageNum, size) == (pageNum - 1) * size

\* a queryAllResources that sends the page index as the row offset
UniviewOffset_PageIndex(currentPage, pageSize) == currentPage

\* finalCondition.PageFirstRowNumber = currentPage * pageSize
UniviewOffset(currentPage, pageSize) == currentPage * pageSize

\* the page the platform serves for the outstanding request
ServedPage(v, g) ==
  Window(g.T, IF v = "dahua" THEN DahuaOffset(g.page, g.size)
              ELSE UniviewOffset(g.page, g.size), g.size)

DahuaPageSize == 1000
DahuaMaxPages == 100

\* a getAllOrganizations that does not stop at a short page
DahuaStops_NoShortPage(all, page, reported, total, pageNum) ==
  IF reported THEN Len(all) >= total
  ELSE pageNum >= DahuaMaxPages

\* a getAllOrganizations whose ceiling is one page higher
DahuaStops_OneMore(all, page, reported, total, pageNum) ==
  IF reported THEN Len(all) >= total
  ELSE Len(page) < DahuaPageSize \/ pageNum >= DahuaMaxPages + 1

\* getAllOrganizations: "break" after a page was appended to allOrgs
DahuaStops(all, page, reported, total, pageNum) ==
  IF reported THEN Len(all) >= total
  ELSE Len(page) < DahuaPageSize \/ pageNum >= DahuaMaxPages

\* queryAllResources: total = TotalRowNum || 0, then "break"
UniviewStops(all, page, reported, total) ==
  LET t == IF reported THEN total ELSE 0 IN
  Len(all) >= t \/ Len(page) = 0

\* the aggregator is called; its first page request goes out
PgCall ==
  /\ pg.pc = "idle"
  /\ pg' = [pg EXCEPT !.pc = "fetch", !.page = IF vendor = "dahua" THEN 1 ELSE 0,
                      !.all = <<>>, !.reqs = 1]
  /\ UNCHANGED <<unitVars, vendor, now, ticks, accessToken, tokenExpiresAt, keepAliveInterval,
                 timers, due, task, calls, sinceClose>>

\* the platform serves the requested page; the loop body runs up to the
\* next page request or to the return
PgServe ==
  /\ pg.pc = "fetch"
  /\ LET page == ServedPage(vendor, pg)
         all == pg.all \o page
         stop == IF vendor = "dahua"
                 THEN DahuaStops(all, page, pg.reported, pg.T, pg.page)
                 ELSE UniviewStops(all, page, pg.reported, pg.T)
     IN pg' = IF stop THEN [pg EXCEPT !.all = all, !.pc = "done"]
              ELSE [pg EXCEPT !.all = all, !.page = @ + 1, !.reqs = @ + 1]
  /\ UNCHANGED <<unitVars, vendor, now, ticks, accessToken, tokenExpiresAt, keepAliveInterval,
                 timers, due, task, calls, sinceClose>>

\* The same loops, one await at a time, against a platform that serves full
\* pages of the requested length, may report a total other than the number of
\* items it serves, and may fail a page request.
\*   total   the total the answers report (when reported)
\*   all     allOrgs / allItems, written as its runs of consecutive items:
\*           <<[from |-> 1, to |-> 2000]>> is the list 1, 2, ..., 2000
\*   failed  what the failed page request was rejected with
\*   err     what the aggregator call was rejected with
NoPages == [pc |-> "idle", T |-> 0, size |-> 1, reported |-> FALSE, total |-> 0,
            page |-> 0, all |-> <<>>, reqs |-> 0, failed |-> NoRet, err |-> NoRet]

\* item counts served in pages of DahuaPageSize items: the first short page is
\* page 1, 2, 3, 99; or 100 and 101 pages are full
DahuaItemCounts ==
  (0..MaxItems) \cup {f * DahuaPageSize + 1 : f \in {1, 2, 98}} \cup
  {DahuaMaxPages * DahuaPageSize, (DahuaMaxPages + 1) * DahuaPageSize}

Platforms(v) ==
  {[NoPages EXCEPT !.T = T, !.size = size, !.reported = reported, !.total = total] :
     T \in IF v = "dahua" THEN DahuaItemCounts ELSE 0..MaxItems,
     size \in IF v = "dahua" THEN {DahuaPageSize} ELSE 1..MaxPageSize,
     reported \in BOOLEAN,
     total \in 0..(MaxItems + 1)}

\* the platform reports the number of items it serves, or one more
PlatformOf(v) ==
  {g \in Platforms(v) :
     IF g.reported THEN g.T <= MaxItems /\ g.total \in {g.T, g.T + 1}
     ELSE g.total = 0}

\* the list that the runs stand for
RECURSIVE Expand(_)
Expand(runs) ==
  IF runs = <<>> THEN <<>>
  ELSE LET r == runs[Len(runs)] IN
       Expand(SubSeq(runs, 1, Len(runs) - 1)) \o [i \in 1..(r.to - r.from + 1) |-> r.from + i - 1]

\* allOrgs.push(...pageData) / allItems.concat(items): page is a window of the
\* platform's list, a run of consecutive items
Appended(runs, page) ==
  IF page = <<>> THEN runs
  ELSE LET lo == page[1]
           hi == page[Len(page)]
       IN IF runs # <<>> /\ runs[Len(runs)].to + 1 = lo
          THEN [runs EXCEPT ![Len(runs)].to = hi]
          ELSE Append(runs, [from |-> lo, to |-> hi])

\* pageNum++ / currentPage++, told apart up to DahuaMaxPages + MaxBeyond
NextPage(n) == IF n < DahuaMaxPages + MaxBeyond THEN n + 1 ELSE n

\* what client.get rejects a page request with
PageErrors(v) ==
  {Classify(r) : r \in ErrorResponses} \cup {ProcessResponse(v, 200, FailBody(v))}

\* an aggregator that wraps the failure of a page request in a new Error
Rethrown_Wrapped(v, e) == Thrown

\* getAllOrganizations has no try/catch around the page request;
\* queryAllResources has catch (err) { throw err }
Rethrown(v, e) == e

\* the platform answers the page request; the loop body runs up to its
\* "break" or to the end of the iteration
PgAnswer ==
  /\ pg.pc = "fetch"
  /\ LET page == ServedPage(vendor, pg)
         all == Expand(pg.all) \o page
         stop == IF vendor = "dahua"
                 THEN DahuaStops(all, page, pg.reported, pg.total, pg.page)
                 ELSE UniviewStops(all, page, pg.reported, pg.total)
     IN pg' = [pg EXCEPT !.all = Appended(pg.all, page),
                         !.pc = IF stop THEN "done" ELSE "next"]
  /\ UNCHANGED <<unitVars, vendor, now, ticks, accessToken, tokenExpiresAt, keepAliveInterval,
                 timers, due, task, calls, sinceClose>>

\* the next iteration: the next page is requested
PgAgain ==
  /\ pg.pc = "next"
  /\ pg' = [pg EXCEPT !.pc = "fetch", !.page = NextPage(@), !.reqs = NextPage(@)]
  /\ UNCHANGED <<unitVars, vendor, now, ticks, accessToken, tokenExpiresAt, keepAliveInterval,
                 timers, due, task, calls, sinceClose>>

\* the page request fails: client.get rejects, the aggregator call rejects
PgFail ==
  /\ pg.pc = "fetch"
  /\ \E e \in PageErrors(vendor) :
       pg' = [pg EXCEPT !.pc = "failed", !.failed = e, !.err = Rethrown(vendor, e)]
  /\ UNCHANGED <<unitVars, vendor, now, ticks, accessToken, tokenExpiresAt, keepAliveInterval,
                 timers, due, task, calls, sinceClose>>

----------------------------------------------------------------------------
(* Construction: new HikvisionClient(config) / DahuaClient / UniviewClient  *)

\* the fields validateConfig tests, in the order it tests them
Required(v) ==
  CASE v = "hikvision" -> <<"host", "appKey", "appSecret">>
    [] v = "dahua" -> <<"host", "username", "password", "client_id", "client_secret">>
    [] OTHER -> <<"host", "username", "password">>

ConfigFields ==
  {"host", "appKey", "appSecret", "username", "password", "client_id", "client_secret"}

\* a field is undefined ("absent"), the empty string, or a non-empty string
FieldValues == {"absent", "empty", "set"}

\* "!config.host": the field is falsy
Missing(cfg, f) == cfg[f] # "set"

\* validateConfig(config): throw new Error(...) on a null config or on the
\* first falsy required field; NoRet when it returns
ValidateConfig(v, given, cfg) ==
  IF ~given \/ \E i \in 1..Len(Required(v)) : Missing(cfg, Required(v)[i])
  THEN Thrown
  ELSE NoRet

\* pc: "none" (not called), "threw", "built"    given: config is an object
\* err: what the constructor threw
\* made: the statements after validateConfig ran (fields, session state,
\*       initHttpClient, the API wrapper)
NewCall(given, cfg) ==
  [pc |-> "none", given |-> given, cfg |-> cfg, err |-> NoRet, made |-> FALSE]

\* the constructor: validateConfig is its first statement
Constructor(v, c) ==
  LET e == ValidateConfig(v, c.given, c.cfg) IN
  IF e.has THEN [c EXCEPT !.pc = "threw", !.err = e]
  ELSE [c EXCEPT !.pc = "built", !.made = TRUE]

\* a constructor call that returned the client
Built == Constructor("dahua", NewCall(TRUE, [f \in ConfigFields |-> "set"]))

Construct ==
  /\ ctor.pc = "none"
  /\ ctor' = Constructor(vendor, ctor)
  /\ UNCHANGED <<en, sg, ov, vendor, now, ticks, accessToken, tokenExpiresAt, keepAliveInterval,
                 timers, due, task, calls, pg, sinceClose>>

----------------------------------------------------------------------------
(* The client as its constructor leaves it *)

Constructed ==
  /\ now = StartMs
  /\ ticks = 0
  /\ accessToken = Null
  /\ tokenExpiresAt = NullTime
  /\ keepAliveInterval = Null
  /\ timers = {}
  /\ due = 0
  /\ task = [p \in Procs |-> IdleTask]
  /\ calls = 0
  /\ sinceClose = "never"

Init ==
  /\ vendor \in Vendors
  /\ Constructed
  /\ pg = NoPaging
  /\ ctor = Built
  /\ en = NoEntry
  /\ sg = NoSign
  /\ ov = NoOverlap

Next ==
  \/ \E p \in Callers : CallRequest(p)
  \/ \E p \in Callers : CallEnsure(p)
  \/ \E p \in Callers : CallLogin(p)
  \/ \E p \in Procs : Intercept(p)
  \/ \E p \in Procs : Attach(p)
  \/ \E p \in Procs : ServerRespond(p)
  \/ \E p \in Procs : Resume(p)
  \/ \E p \in Procs : BackoffDone(p)
  \/ \E p \in Procs : Collect(p)
  \/ Close
  \/ Tick
  \/ TimerFire

Spec == Init /\ [][Next]_vars

\* the aggregators alone, over every item count, page length and kind of answer
InitPaging ==
  /\ vendor \in TokenVendors
  /\ Constructed
  /\ \E T \in 0..MaxItems, size \in 1..MaxPageSize, reported \in BOOLEAN :
       pg = [NoPaging EXCEPT !.T = T, !.size = size, !.reported = reported]
  /\ ctor = Built
  /\ en = NoEntry
  /\ sg = NoSign
  /\ ov = NoOverlap

NextPaging == PgCall \/ PgServe

SpecPaging == InitPaging /\ [][NextPaging]_vars

\* the success branch of login() alone, run on the token answer body
LoginSucceedsWith(body) ==
  /\ LET t == NewTask("login", <<Frame("login", "", "", FALSE, 0)>>)
         e == IF vendor = "dahua" THEN DahuaLoginStored(t, body)
              ELSE LoginStored(t, body)
     IN /\ e.fits
        /\ accessToken' = e.tok
        /\ tokenExpiresAt' = e.exp
        /\ keepAliveInterval' = e.ka
        /\ timers' = e.tm
        /\ due' = e.du
  /\ sinceClose' = Started
  /\ UNCHANGED <<unitVars, vendor, now, ticks, task, calls, pg>>

LoginSucceeds == \E body \in TokenAnswers(vendor) : LoginSucceedsWith(body)

\* the session fields under login's success branch, the clock and close()
InitSession ==
  /\ vendor \in TokenVendors
  /\ Constructed
  /\ pg = NoPaging
  /\ ctor = Built
  /\ en = NoEntry
  /\ sg = NoSign
  /\ ov = NoOverlap

NextSession == LoginSucceeds \/ Tick \/ Close

SpecSession == InitSession /\ [][NextSession]_vars

\* the constructor alone, over every config: no config object, or each field
\* absent, empty or set
InitConstruct ==
  /\ vendor \in Vendors
  /\ Constructed
  /\ pg = NoPaging
  /\ \/ ctor = NewCall(FALSE, [f \in ConfigFields |-> "absent"])
     \/ \E cfg \in [ConfigFields -> FieldValues] : ctor = NewCall(TRUE, cfg)
  /\ en = NoEntry
  /\ sg = NoSign
  /\ ov = NoOverlap

NextConstruct == Construct

SpecConstruct == InitConstruct /\ [][NextConstruct]_vars

\* the two entries, over every vendor, starting session, verb and answer
InitEntry ==
  /\ vendor \in Vendors
  /\ now = StartMs
  /\ ticks = 0
  /\ task = [p \in Procs |-> IdleTask]
  /\ calls = 0
  /\ sinceClose = "never"
  /\ pg = NoPaging
  /\ ctor = Built
  /\ \E s \in EntrySessions(vendor) :
       /\ accessToken = s.tok
       /\ tokenExpiresAt = s.exp
       /\ keepAliveInterval = s.ka
       /\ timers = s.tm
       /\ due = s.du
       /\ \E verb \in Verbs, arg \in {"absent", "set"} :
            /\ verb = "delete" => arg = "absent"
            /\ \E given \in {verb, Upper(verb)} :
                 en = [NoEntry EXCEPT !.phase = "typed", !.verb = verb, !.arg = arg,
                                      !.given = given, !.snap = s]
  /\ sg = NoSign
  /\ ov = NoOverlap

NextEntry ==
  \/ EntryTyped(EntryCaller)
  \/ EntryGeneric(EntryCaller)
  \/ EntryRespond(EntryCaller)
  \/ Intercept(EntryCaller)
  \/ Attach(EntryCaller)
  \/ Resume(EntryCaller)

SpecEntry == InitEntry /\ [][NextEntry]_vars

\* the signing functions alone, over their inputs
InitSign ==
  /\ vendor \in Vendors
  /\ Constructed
  /\ pg = NoPaging
  /\ ctor = Built
  /\ en = NoEntry
  /\ \E in \in SignInputs(vendor) : sg = [NoSign EXCEPT !.in = in]
  /\ ov = NoOverlap

NextSign == Sign

SpecSign == InitSign /\ [][NextSign]_vars

\* one call of a typed wrapper, over every argument and starting session
InitWrapper ==
  /\ vendor \in {"uniview", "hikvision"}
  /\ now = StartMs
  /\ ticks = 0
  /\ task = [p \in Procs |-> IdleTask]
  /\ calls = 0
  /\ sinceClose = "never"
  /\ pg = NoPaging
  /\ ctor = Built
  /\ \E s \in EntrySessions(vendor) :
       /\ accessToken = s.tok
       /\ tokenExpiresAt = s.exp
       /\ keepAliveInterval = s.ka
       /\ timers = s.tm
       /\ due = s.du
       /\ \E w \in Wrappers(vendor) : \E a \in WrapperArgs(w) :
            en = [wr |-> w, arg |-> a, snap |-> s, called |-> FALSE]
  /\ sg = NoSign
  /\ ov = NoOverlap

NextWrapper ==
  \/ CallWrapper(EntryCaller)
  \/ Intercept(EntryCaller)
  \/ Attach(EntryCaller)
  \/ ServerRespond(EntryCaller)
  \/ Resume(EntryCaller)

SpecWrapper == InitWrapper /\ [][NextWrapper]_vars

\* one HikvisionAuth object signs requests and verifies signatures
InitVerify ==
  /\ vendor = "hikvision"
  /\ Constructed
  /\ pg = NoPaging
  /\ ctor = Built
  /\ en = NoEntry
  /\ \E in \in SignInputs("hikvision") : in.body = "" /\ sg = [NoVerify EXCEPT !.in = in]
  /\ ov = NoOverlap

NextVerify == SignRequest \/ Verify

SpecVerify == InitVerify /\ [][NextVerify]_vars

\* two callers call ensureAuthenticated() on a client without a session
InitOverlap ==
  /\ vendor \in TokenVendors
  /\ Constructed
  /\ pg = NoPaging
  /\ ctor = Built
  /\ en = NoEntry
  /\ sg = NoSign
  /\ ov = NoOverlap

NextOverlap ==
  \/ \E p \in OverlapCallers : OverlapEnsure(p)
  \/ \E p \in OverlapCallers : Intercept(p)
  \/ \E p \in OverlapCallers : OverlapRespond(p)
  \/ \E p \in OverlapCallers : Resume(p)

SpecOverlap == InitOverlap /\ [][NextOverlap]_vars

\* UniviewClient.login of the class alone, and the clock.  Every transport call ends (the
\* axios timeout turns silence into an answer without response) and every
\* setTimeout fires: both steps are weakly fair.
InitLogin ==
  /\ vendor = "uniview"
  /\ Constructed
  /\ pg = NoPaging
  /\ ctor = Built
  /\ en = NoEntry
  /\ sg = NoSign
  /\ ov = NoOverlap

NextLogin ==
  \/ CallLogin(EntryCaller)
  \/ ServerRespond(EntryCaller)
  \/ BackoffDone(EntryCaller)
  \/ Collect(EntryCaller)
  \/ Tick

SpecLogin ==
  /\ InitLogin
  /\ [][NextLogin]_vars
  /\ WF_vars(ServerRespond(EntryCaller))
  /\ WF_vars(BackoffDone(EntryCaller))

\* The aggregators page by page.  Every page request ends, with a page or
\* with an error, and the loop then goes on: the steps are weakly fair.
InitPages ==
  /\ vendor \in TokenVendors
  /\ Constructed
  /\ pg \in PlatformOf(vendor)
  /\ ctor = Built
  /\ en = NoEntry
  /\ sg = NoSign
  /\ ov = NoOverlap

NextPages == PgCall \/ PgAnswer \/ PgAgain \/ PgFail

SpecPages ==
  /\ InitPages
  /\ [][NextPages]_vars
  /\ WF_vars(PgCall)
  /\ WF_vars(PgAnswer \/ PgFail)
  /\ WF_vars(PgAgain)

TypeOK ==
  /\ vendor \in Vendors
  /\ accessToken \in 0..MaxToken
  /\ keepAliveInterval \in 0..MaxTimers
  /\ timers \subseteq 1..MaxTimers
  /\ \A p \in Procs : Len(task[p].stack) <= MaxDepth

----------------------------------------------------------------------------
(* Properties of the request pipeline, checked under Spec *)

AuthStatuses == {401, 403}

\* a finished call of the caller's own request
DoneRequest(p) == task[p].st = "done" /\ task[p].op = "request"

\* C1: on DahuaClient and UniviewClient, a request whose first answer is 401 or
\* 403, and whose login and retry are then answered successfully, ends in
\* success, with exactly one login between the first and second dispatch.
C1_RetryAfterAuthError ==
  \A p \in Callers :
    (/\ vendor \in TokenVendors
     /\ DoneRequest(p)
     /\ task[p].first \in AuthStatuses
     /\ task[p].restOk)
    => (/\ task[p].res.ok
        /\ task[p].nDisp = 2
        /\ task[p].between = 1)

\* C2: one logical request is dispatched at most twice and triggers at most one
\* re-login; a call whose two dispatches were both answered 401/403 ends in an
\* AUTH-class error.
C2_AtMostOneRetry ==
  \A p \in Procs :
    /\ task[p].nDisp <= 2
    /\ task[p].nRelogin <= 1
    /\ (DoneRequest(p) /\ task[p].nDisp = 2 /\ task[p].lastRetry = "AUTH")
         => (~task[p].res.ok /\ task[p].res.kind = "AUTH")

\* C3: when the single retry after a 401/403 fails, the caller's error has the
\* class of the retry's own outcome (AUTH, API or NETWORK).
C3_RetryErrorClass ==
  \A p \in Callers :
    (/\ DoneRequest(p)
     /\ task[p].nDisp = 2
     /\ task[p].lastRetry # ""
     /\ ~task[p].res.ok)
    => task[p].res.kind = task[p].lastRetry

\* ensureAuthenticated(), called on a client without a valid session, returns
\* although every login call was answered as a success of its step
EnsureReturns(p) ==
  /\ task[p].op = "ensure"
  /\ ~task[p].valid0
  /\ task[p].st = "run"
  /\ task'[p].st = "done"
  /\ task'[p].restOk

\* C4: on a client whose session is empty or expired, ensureAuthenticated()
\* logs in before it returns, and when the platform answers the login calls
\* successfully it completes with a valid session stored.
C4_EnsureStoresSession ==
  [][\A p \in Callers :
       EnsureReturns(p) =>
         (/\ task'[p].io >= 1
          /\ accessToken' # Null
          /\ tokenExpiresAt' \notin {NullTime, NaN}
          /\ now' < tokenExpiresAt')]_vars

\* a step in which ensureAuthenticated() is called: by the caller, or by the
\* request interceptor of a request in progress
EnsureCalledBy(p) ==
  \/ task[p].st = "idle" /\ task'[p].op = "ensure"
  \/ /\ Running(p)
     /\ Top(task[p]).k = "req"
     /\ Top(task[p]).pc = "icpt"
     /\ task'[p] # task[p]

\* ... and returns success at once, having made no transport call and no login
EnsureReturnedAtOnce(p) ==
  /\ task'[p].io = task[p].io
  /\ task'[p].nEnsure = task[p].nEnsure
  /\ IF task[p].st = "idle"
     THEN task'[p].st = "done" /\ task'[p].res = LoginResult(TRUE)
     ELSE /\ Len(task'[p].stack) = Len(task[p].stack)
          /\ Top(task'[p]).pc = "attach"

\* C5: isAuthenticated() is true only if a token is held and the expiry is a
\* defined time strictly after now, also after a login whose token answer
\* declares no lifetime.
C5_AuthenticatedOnlyIfValid == IsAuthenticated => SessionValid

\* C6: when the current session is valid, ensureAuthenticated() returns success
\* without any transport call and leaves token, expiry and timer unchanged.
C6_ValidSessionNoLogin ==
  [][\A p \in Procs :
       (SessionValid /\ EnsureCalledBy(p)) =>
         (/\ EnsureReturnedAtOnce(p)
          /\ UNCHANGED <<accessToken, tokenExpiresAt, keepAliveInterval, timers, due>>)]_vars

\* the caller's ensureAuthenticated() found a valid session and returned
C6_Witness ==
  \E p \in Callers :
    /\ task[p].op = "ensure"
    /\ task[p].valid0
    /\ task[p].st = "done"
    /\ task[p].io = 0
    /\ SessionValid
    /\ keepAliveInterval # Null

\* C7: once UniviewClient.close() has returned and no new operation is
\* started, no keep-alive timer is running, also when a login or a keep-alive
\* touch was in flight at the moment of the call.
C7_NoTimerAfterClose == Quiet => timers = {}

\* the state close() must leave
Closed ==
  /\ accessToken = Null
  /\ tokenExpiresAt = NullTime
  /\ keepAliveInterval = Null
  /\ timers = {}

\* C8: close() can be called in any state, also on a client that never logged
\* in and also twice in a row: it leaves token null, expiry null and no timer.
C8_CloseIdempotent ==
  /\ [](vendor \in TokenVendors => ENABLED Close)
  /\ [][Close => Closed']_vars

\* close() was called twice in a row
C8_Witness == sinceClose = "quiet2" /\ Closed

\* the values that handleResponseError built from a transport failure
Classified(p) ==
  {v \in {task[p].ret, task[p].res} : v.has /\ v.from # NotTransport}

Flagged(v, body) ==
  /\ ~body.isNull
  /\ IF v = "dahua" THEN body.success = "false" ELSE body.errCode = "nonzero"

\* a finished request whose only dispatch was answered with a success status
AnsweredOnce(p) ==
  /\ DoneRequest(p)
  /\ task[p].nDisp = 1
  /\ task[p].got.status = 200

\* C11: a success status whose body carries the vendor's business-failure flag
\* is never returned as a success: the call fails with an API error carrying
\* the body and the status; every other body is returned as {status, data,
\* message}, message being the vendor's text or "success".
C11_BusinessFailureIsApiError ==
  \A p \in Callers :
    AnsweredOnce(p) =>
      LET r == task[p].res
          b == task[p].got.body
      IN IF Flagged(vendor, b)
         THEN ~r.ok /\ r.kind = "API" /\ r.body = b /\ r.status = 200
         ELSE /\ r.ok /\ r.status = 200 /\ r.body = b
              /\ r.message = IF b.text THEN "vendor" ELSE "success"

(* Properties of the constructor, checked under SpecConstruct *)

ErrorKinds == {"API", "AUTH", "NETWORK", "PARAMETER", "TIMEOUT"}

\* the constructor was called with a required field missing
MissingField ==
  /\ ctor.pc # "none"
  /\ \/ ~ctor.given
     \/ \E i \in 1..Len(Required(vendor)) : ctor.cfg[Required(vendor)[i]] # "set"

\* C13: constructing a client with a missing required field fails
\* synchronously with a PARAMETER-classified error, before any session state
\* or HTTP client is created.
C13_MissingFieldIsParameterError ==
  MissingField =>
    /\ ctor.pc = "threw"
    /\ ~ctor.made
    /\ ctor.err.kind = "PARAMETER"

\* the errors that the constructor and the finished calls raised to the caller
Raised ==
  {ctor.err : x \in {y \in {0} : ctor.pc = "threw"}} \cup
  {task[p].res : p \in {q \in Callers : task[q].st = "done" /\ ~task[q].res.ok}}

\* C12: every error that a public operation raises to its caller is a
\* normalized error whose kind is one of API, AUTH, NETWORK, PARAMETER,
\* TIMEOUT.
C12_ErrorsAreNormalized == \A e \in Raised : e.kind \in ErrorKinds

(* Properties of the entry points, checked under SpecEntry *)

\* what a call did and returned, the config it was made with left aside
Outcome(t) ==
  [res |-> t.res, nDisp |-> t.nDisp, nEnsure |-> t.nEnsure, nRelogin |-> t.nRelogin,
   io |-> t.io, first |-> t.first, between |-> t.between, hdr |-> t.hdr,
   sig |-> t.sig, got |-> t.got]

\* C14: request(method, path, {params, data}) goes through the same pipeline as
\* get/post/put/delete: from the same session and against the same answers it
\* makes the same ensureAuthenticated/login calls and dispatches, attaches the
\* same authentication material, handles 401/403 the same way, returns the
\* same result or error and leaves the same session.
C14_GenericSameAsTyped ==
  LET p == EntryCaller IN
    en.phase = "generic" =>
      /\ task[p].io <= en.a.io
      /\ task[p].nDisp <= en.a.nDisp
      /\ task[p].nEnsure + task[p].nRelogin <= en.a.nEnsure + en.a.nRelogin
      /\ task[p].st = "done" =>
           /\ Outcome(task[p]) = Outcome(en.a)
           /\ Session = en.after
           /\ en.pos = Len(en.script) + 1

\* both entries of UniviewClient were answered 401, logged in again and retried
C14_Witness ==
  LET p == EntryCaller IN
    /\ vendor = "uniview"
    /\ en.phase = "generic"
    /\ en.given = "post"
    /\ task[p].st = "done"
    /\ task[p].first = 401
    /\ task[p].nRelogin = 1
    /\ task[p].nDisp = 2
    /\ task[p].res.ok

(* Properties of the signing functions, checked under SpecSign *)

\* the material was computed twice from the same inputs
SignedTwice == sg.n = 2

\* C15 as stated: for each of the three variants, computing the authentication
\* material twice from the same inputs with the same credentials yields
\* identical output.
C15_Deterministic == SignedTwice => sg.out[1] = sg.out[2]

\* C15: the Hikvision signature headers and the Uniview login data are
\* identical in both computations; the two Dahua login payloads are identical
\* but for the RSA ciphertext, which encrypts the same password under the same
\* key with a padding drawn anew.
C15_DeterministicButPadding ==
  SignedTwice =>
    IF vendor = "dahua"
    THEN /\ [sg.out[1] EXCEPT !.password = 0] = [sg.out[2] EXCEPT !.password = 0]
         /\ \A i \in 1..2 :
              /\ sg.out[i].password.base64.m = sg.in.password
              /\ sg.out[i].password.base64.rsa = sg.in.publicKey
    ELSE sg.out[1] = sg.out[2]

\* two Dahua login payloads from the same inputs, with different ciphertexts
C15_Witness ==
  /\ SignedTwice
  /\ vendor = "dahua"
  /\ sg.out[1].password # sg.out[2].password

(* Properties of overlapping calls, checked under SpecOverlap *)

\* both ensureAuthenticated() calls were made and have returned
OverlapDone ==
  /\ calls = MaxOverlap
  /\ \A p \in OverlapCallers : task[p].st = "done" /\ task[p].op = "ensure"

\* C16: when two ensureAuthenticated() calls overlap on an empty session and
\* all logins have completed, at least one of them granted by the platform,
\* the stored session is the token of the login granted last with the expiry
\* computed from it; the client is not left without a session.
C16_LastWriteWins ==
  (OverlapDone /\ ov.tok # Null) =>
    /\ accessToken = ov.tok
    /\ tokenExpiresAt = IF vendor = "dahua" THEN DahuaExpiry(ov.at, ov.life)
                        ELSE UniviewExpiry(ov.at)

(* Properties of the constructed client, checked under Spec *)

\* the frames of call p
FramesOf(p) == {task[p].stack[i] : i \in 1..Len(task[p].stack)}

\* C17: after construction, login() and keepTokenAlive() of UniviewClient, as
\* called by ensureAuthenticated, by the 401/403 handler and by the keep-alive
\* timer, are the client's own operations: no call runs the API wrapper's
\* login in their place, and the timer's call is the class's keepTokenAlive.
C17_ProxyKeepsOwnMethods ==
  vendor = "uniview" =>
    \A p \in Procs :
      /\ \A f \in FramesOf(p) : f.k # "apilogin"
      /\ (task[p].op = "tick" /\ task[p].st = "run") =>
           task[p].stack[1].k = "keepalive"

\* the logins in progress within call p
LoginsOf(p) ==
  {i \in 1..Len(task[p].stack) : task[p].stack[i].k \in {"dlogin", "ulogin", "apilogin"}}

\* C18: the transport calls that login() itself makes do not re-enter
\* ensureAuthenticated()/login(): no login is started while a login of the same
\* call is in progress, and no request of a login waits for ensureAuthenticated.
C18_LoginDoesNotNest ==
  \A p \in Procs :
    /\ Cardinality(LoginsOf(p)) <= 1
    /\ \A f \in FramesOf(p) :
         (f.k = "req" /\ f.what \in {"pubkey", "token", "rawlogin"}) => f.pc # "ensure"

\* a request the client signs or sends with a token is at the transport
Dispatched(p) ==
  /\ task[p].st = "run"
  /\ Top(task[p]).k = "req"
  /\ Top(task[p]).pc = "wait"
  /\ Top(task[p]).what \in {"biz", "touch"}

\* C19: every business request that DahuaClient or UniviewClient hands to the
\* transport carries an Authorization header built from a token the client
\* holds; when ensureAuthenticated() fails the request is not dispatched and
\* the caller receives an AUTH error.
C19_DispatchCarriesToken ==
  vendor \in TokenVendors =>
    \A p \in Procs :
      /\ Dispatched(p) => (task[p].hdr # Null /\ task[p].hdr = accessToken)
      /\ (DoneRequest(p) /\ task[p].nDisp = 0) =>
           (~task[p].res.ok /\ task[p].res.kind = "AUTH")

\* C20: in HikvisionClient a request answered with 401 or 403 is re-signed and
\* re-dispatched exactly once before any error reaches the caller.
C20_HikvisionRetriesOnce ==
  \A p \in Callers :
    (/\ vendor = "hikvision"
     /\ DoneRequest(p)
     /\ task[p].first \in AuthStatuses)
    => task[p].nDisp = 2

\* a request was answered 401/403, the re-login was answered with a failure
\* and the error has reached the caller
RejectedNoRelogin(p) ==
  /\ vendor \in TokenVendors
  /\ DoneRequest(p)
  /\ task[p].first \in AuthStatuses
  /\ task[p].nDisp = 1
  /\ ~task[p].restOk
  /\ ~task[p].res.ok

\* C21: after a business request of DahuaClient or UniviewClient was answered
\* 401/403 and no re-login has succeeded, isAuthenticated() is false when the
\* error reaches the caller: the rejected token is not used again.
C21_RejectedTokenInvalidated ==
  \A p \in Callers :
    RejectedNoRelogin(p) => ~(IsAuthenticated /\ accessToken = task[p].hdr)

\* login() was started on a valid session, has returned a failure result, and
\* close() was not called meanwhile
LoginFailedOnValid(p) ==
  /\ task[p].op = "login"
  /\ task[p].st = "done"
  /\ task[p].valid0
  /\ task[p].res.body.success = "false"
  /\ ~Quiet

\* C22: a login attempt that fails does not destroy a session that was valid
\* when it began: the client still holds a token and an expiry afterwards.
C22_FailedLoginKeepsSession ==
  \A p \in Callers :
    LoginFailedOnValid(p) => (accessToken # Null /\ tokenExpiresAt # NullTime)

\* the scheduler is Running
SchedulerRunning == keepAliveInterval # Null

\* C23: a UniviewClient has at most one keep-alive timer at any time, the one
\* whose handle it holds; while the scheduler is Running no step other than
\* close() replaces the handle or creates a timer.
C23_AtMostOneTimer ==
  /\ [](/\ Cardinality(timers) <= 1
        /\ timers = IF SchedulerRunning THEN {keepAliveInterval} ELSE {})
  /\ [][(SchedulerRunning /\ keepAliveInterval' # Null) =>
          UNCHANGED <<keepAliveInterval, timers>>]_vars

\* a second login has succeeded while the scheduler was Running
C23_Witness ==
  \E p \in Callers :
    /\ task[p].op = "login"
    /\ task[p].st = "done"
    /\ task[p].valid0
    /\ task[p].res.body.success = "true"
    /\ SchedulerRunning
    /\ Cardinality(timers) = 1

\* C24: the keep-alive scheduler leaves the Running state only through
\* close(): every step that changes the handle or the set of live timers of a
\* Running scheduler is a close() step, whatever requests, touches or
\* re-logins fail.
C24_OnlyCloseStops ==
  [][(SchedulerRunning /\ <<keepAliveInterval, timers>>' # <<keepAliveInterval, timers>>)
       => Close]_vars

\* a keep-alive touch was rejected with 401/403, the re-login failed as well,
\* and the scheduler is still Running
C24_Witness ==
  /\ task[TimerProc].op = "tick"
  /\ task[TimerProc].st = "done"
  /\ task[TimerProc].first \in AuthStatuses
  /\ ~task[TimerProc].res.ok
  /\ SchedulerRunning
  /\ timers = {keepAliveInterval}

\* the value with which the top frame of call p completes in this step
Returned(p) == IF task'[p].st = "done" THEN task'[p].res ELSE task'[p].ret

\* a login of UniviewClient returns in this step, and returns a success: the
\* class's login its {success: true}, the wrapper's login a body with a token
LoginReturnsSuccess(p) ==
  /\ vendor = "uniview"
  /\ task[p].st = "run"
  /\ Top(task[p]).k \in {"ulogin", "apilogin"}
  /\ \/ task'[p].st = "done"
     \/ task'[p].st = "run" /\ Len(task'[p].stack) = Len(task[p].stack) - 1
  /\ Returned(p).ok
  /\ Returned(p).body.success = "true" \/ Returned(p).body.token # 0

\* C25: in UniviewClient the scheduler is Idle until the first successful
\* login, and it is Running when a login returns a success, whether the login
\* was started by the caller, by ensureAuthenticated, by the 401/403 handler
\* or within a keep-alive tick.
C25_RunningAfterLogin ==
  /\ []((vendor = "uniview" /\ calls = 0 /\ sinceClose = "never") => ~SchedulerRunning)
  /\ [][(vendor = "uniview" /\ ~SchedulerRunning /\ SchedulerRunning') =>
          \E p \in Procs : LoginReturnsSuccess(p)]_vars
  /\ [][\A p \in Procs : LoginReturnsSuccess(p) => SchedulerRunning']_vars

\* the keep-alive callback has completed
TickDone == task[TimerProc].op = "tick" /\ task[TimerProc].st = "done"

\* the touch request of the completed tick was dispatched and failed
TouchFailed ==
  /\ TickDone
  /\ task[TimerProc].nDisp >= 1
  /\ \/ task[TimerProc].first # 200
     \/ BusinessFailure(vendor, task[TimerProc].got.body)

\* C26: a keep-alive tick never surfaces an error: the callback completes
\* without raising, and when its touch request failed it has made a login
\* attempt in place.
C26_TickNeverRaises ==
  /\ TickDone => task[TimerProc].res.ok
  /\ TouchFailed => task[TimerProc].nRelogin + task[TimerProc].nEnsure >= 1

\* a step of a keep-alive tick that has made no login: the touch is sent
\* on the session the client holds, and answered
TouchStep ==
  /\ task'[TimerProc] # task[TimerProc]
  /\ task'[TimerProc].op = "tick"
  /\ task'[TimerProc].nEnsure = 0
  /\ task'[TimerProc].nRelogin = 0

\* C27: a keep-alive touch leaves the session unchanged: token and expiry keep
\* the values the last login wrote, so keep-alive never extends the locally
\* tracked expiry.
C27_TouchKeepsSession ==
  [][TouchStep => UNCHANGED <<accessToken, tokenExpiresAt>>]_vars

\* a touch sent 24 h after the login has succeeded; the expiry is still the
\* one of the login
C27_Witness ==
  /\ TickDone
  /\ task[TimerProc].res.ok
  /\ task[TimerProc].first = 200
  /\ task[TimerProc].nEnsure = 0
  /\ task[TimerProc].nRelogin = 0
  /\ now = StartMs + KeepAliveIntervalMs
  /\ accessToken # Null
  /\ tokenExpiresAt = UniviewExpiry(StartMs)

(* Properties of UniviewClient.login, checked under SpecLogin *)

\* the login in progress of the caller, if any
LoginRunning ==
  /\ task[EntryCaller].op = "login"
  /\ task[EntryCaller].st = "run"

LoginDone ==
  /\ task[EntryCaller].op = "login"
  /\ task[EntryCaller].st = "done"

\* C28: the login of UniviewClient makes at most 4 attempts (1 + maxRetries),
\* goes on only while no attempt has obtained a token, returns a failure
\* result only when the 4th attempt has failed, never throws, and always
\* terminates.
C28_LoginBounded ==
  /\ [](LoginRunning => Top(task[EntryCaller]).att + 1 <= 1 + maxRetries)
  /\ [](LoginDone =>
          /\ task[EntryCaller].res.ok
          /\ task[EntryCaller].res.body.success \in {"true", "false"})
  /\ [][(LoginRunning /\ LoginRunning') => accessToken' = Null]_vars
  /\ [][(LoginRunning /\ LoginDone') =>
          IF task'[EntryCaller].res.body.success = "true"
          THEN accessToken' # Null
          ELSE Top(task[EntryCaller]).att = maxRetries]_vars
  /\ LoginRunning ~> LoginDone

\* login has returned a failure result
C28_Witness ==
  /\ LoginDone
  /\ task[EntryCaller].res.body.success = "false"
  /\ accessToken = Null

\* C29: between consecutive failed attempts of the Uniview login the wait
\* grows exponentially: each wait is twice the wait before the previous retry.
C29_WaitDoubles ==
  \A p \in Procs : \A f \in FramesOf(p) :
    (f.k = "ulogin" /\ f.pc = "backoff" /\ f.att >= 2) =>
      BackoffMs(f.att) = 2 * BackoffMs(f.att - 1)

\* the runs of DahuaClient.login's body within call p
DahuaAttempts(p) == {i \in 1..Len(task[p].stack) : task[p].stack[i].k = "dlogin"}

\* C30: DahuaClient.login() makes exactly one attempt: the call runs the login
\* body once, with no retry; it returns a result and never throws; and a
\* failure result leaves token and expiry as they were (for the client's
\* first call: as the constructor left them).
C30_DahuaLoginOnce ==
  vendor = "dahua" =>
    \A p \in Callers :
      task[p].op = "login" =>
        /\ Cardinality(DahuaAttempts(p)) <= 1
        /\ task[p].st = "done" =>
             /\ task[p].res.ok
             /\ task[p].res.body.success \in {"true", "false"}
             /\ (task[p].res.body.success = "false" /\ calls = 1) =>
                  (accessToken = Null /\ tokenExpiresAt = NullTime)

\* the login awaits the answer to its first (challenge) request
AtChallenge == LoginRunning /\ Top(task[EntryCaller]).pc = "challenge"

\* the login has sent its second (signature) request in this step
SubmitSent ==
  /\ task'[EntryCaller].st = "run"
  /\ task'[EntryCaller].stack[Len(task'[EntryCaller].stack)].pc = "submit"

\* an answer that rawPost returns to login: 2xx, an object, no ErrCode # 0
Passed(r) ==
  r.status = 200 /\ ~r.body.isNull /\ ~BusinessFailure("uniview", r.body)

\* C31: in the Uniview login, an answer to the challenge request that carries
\* an access token completes the login in that step, with that token stored
\* and no second request; the second request is sent exactly when the answer
\* carries an access code and no access token.
C31_ResumptionSkipsSubmit ==
  [][\A r \in UniviewLoginResponses :
       (AtChallenge /\ Answer(EntryCaller, r)) =>
         /\ (Passed(r) /\ r.body.token # 0) =>
              /\ task'[EntryCaller].st = "done"
              /\ task'[EntryCaller].res.body.success = "true"
              /\ accessToken' = r.body.token
              /\ task'[EntryCaller].io = task[EntryCaller].io
         /\ SubmitSent <=> (Passed(r) /\ r.body.code /\ r.body.token = 0)]_vars

\* the first answer carried a token: login succeeded with one transport call
C31_Witness ==
  /\ LoginDone
  /\ task[EntryCaller].res.body.success = "true"
  /\ task[EntryCaller].io = 1
  /\ accessToken # Null

(* Properties of the stored expiry, checked under SpecSession *)

\* C32: a login that succeeds at time t stores the expiry t + lifetime - 60 s:
\* DahuaClient t + (expires_in - 60) * 1000 ms for the lifetime the token
\* answer declares, UniviewClient t + (48 * 3600 - 60) * 1000 ms; a declared
\* lifetime of at most 60 s gives a session that is valid at no time.
C32_ExpiryWithMargin ==
  [][\A body \in TokenAnswers(vendor) :
       LoginSucceedsWith(body) =>
         /\ vendor = "uniview" => tokenExpiresAt' = now + (48 * 3600 - 60) * 1000
         /\ (vendor = "dahua" /\ body.life # NoLife) =>
              /\ tokenExpiresAt' = now + (body.life - 60) * 1000
              /\ body.life <= 60 =>
                   \A dt \in {0} \cup TimeSteps :
                     ~IsAuthenticatedAt(vendor, accessToken', tokenExpiresAt', now + dt)]_vars

\* DahuaClient has stored a token whose declared lifetime was 60 s
C32_Witness ==
  /\ vendor = "dahua"
  /\ accessToken # Null
  /\ tokenExpiresAt = now
  /\ ~IsAuthenticated

(* Properties of the pagination aggregators, checked under SpecPaging *)

PagesNeeded(T, size) == IF T = 0 THEN 1 ELSE (T + size - 1) \div size

\* C9: when the platform reports the total T and serves consecutive,
\* non-overlapping pages, the aggregator returns exactly the items 1..T, each
\* once and in the platform's order, and requests no page once it holds T items.
C9_AllItemsOnce ==
  pg.reported =>
    /\ pg.pc = "done" =>
         (/\ pg.all = [i \in 1..pg.T |-> i]
          /\ pg.reqs = PagesNeeded(pg.T, pg.size))
    /\ (pg.pc = "fetch" /\ pg.reqs > 1) => Len(pg.all) < pg.T

\* queryAllResources has returned all items of a list served in three pages
C9_Witness ==
  /\ vendor = "uniview"
  /\ pg.reported
  /\ pg.pc = "done"
  /\ pg.T = MaxItems
  /\ pg.reqs >= 3
  /\ Len(pg.all) = MaxItems

\* the number of the first page that holds fewer than size items, when the
\* platform serves the items 1..T in pages of size items
FirstShortPage(T, size) == (T \div size) + 1

\* C34: UniviewAPI.queryAllResources, when the answers carry no total, requests
\* successive pages until a page shorter than pageSize is returned, and returns
\* the items of all pages up to and including that page.
C34_UniviewNoTotalUntilShort ==
  (vendor = "uniview" /\ ~pg.reported /\ pg.pc = "done") =>
    /\ pg.reqs = FirstShortPage(pg.T, pg.size)
    /\ pg.all = [i \in 1..pg.T |-> i]

(* Properties of the pagination loops page by page, checked under SpecPages *)

\* the aggregator call is in its loop
Paging == pg.pc \in {"fetch", "next"}

\* C33: DahuaAPI.getAllOrganizations, when the answers carry no total and the
\* first short page is page k < 100, makes exactly k page requests, for the
\* page numbers 1..k one after the other, and returns pages 1..k concatenated.
C33_StopsAtFirstShortPage ==
  (vendor = "dahua" /\ ~pg.reported) =>
    LET k == FirstShortPage(pg.T, pg.size) IN
    k < DahuaMaxPages =>
      /\ Paging => (pg.reqs = pg.page /\ pg.page <= k)
      /\ pg.pc = "done" =>
           /\ pg.reqs = k
           /\ pg.page = k
           /\ Expand(pg.all) = [i \in 1..pg.T |-> i]

\* 98 full pages and a page of one item: returned after 99 requests
C33_Witness ==
  /\ vendor = "dahua"
  /\ ~pg.reported
  /\ pg.pc = "done"
  /\ pg.reqs = 99
  /\ Len(Expand(pg.all)) = 98 * DahuaPageSize + 1

\* C35: DahuaAPI.getAllOrganizations, when no answer carries a total and every
\* page is full, makes exactly 100 page requests (pages 1..100), returns what
\* it has accumulated, and never makes a 101st request.
C35_CeilingOfHundredPages ==
  (vendor = "dahua" /\ ~pg.reported) =>
    /\ pg.reqs <= DahuaMaxPages
    /\ pg.T >= DahuaMaxPages * DahuaPageSize =>
         /\ Paging => pg.reqs = pg.page
         /\ pg.pc = "done" =>
              /\ pg.reqs = DahuaMaxPages
              /\ Expand(pg.all) = [i \in 1..(DahuaMaxPages * DahuaPageSize) |-> i]

\* 101 pages would be full: returned after 100 requests
C35_Witness ==
  /\ vendor = "dahua"
  /\ ~pg.reported
  /\ pg.T = (DahuaMaxPages + 1) * DahuaPageSize
  /\ pg.pc = "done"
  /\ pg.reqs = DahuaMaxPages
  /\ Len(Expand(pg.all)) = DahuaMaxPages * DahuaPageSize

\* C36: each pagination aggregator terminates for every sequence of successful
\* page answers, also when the answers report a total that the served pages
\* never reach: a call in its loop returns or fails.
C36_AggregatorTerminates == Paging ~> (pg.pc \in {"done", "failed"})

\* C37: when a page request fails, the aggregator call fails with the same
\* classified error, makes no further page request and returns no list.
C37_PageFailurePropagates ==
  /\ [](pg.pc = "failed" =>
          /\ pg.err = pg.failed
          /\ pg.err.has /\ ~pg.err.ok
          /\ pg.err.kind \in {"AUTH", "API", "NETWORK"})
  /\ [][pg.pc = "failed" => pg' = pg]_vars
  /\ [][(pg.pc = "fetch" /\ PgFail) =>
          (pg'.pc = "failed" /\ pg'.reqs = pg.reqs /\ pg'.err \in PageErrors(vendor))]_vars

\* the third page request failed after two pages had been accumulated
C37_Witness ==
  /\ pg.pc = "failed"
  /\ pg.reqs = 3
  /\ pg.all # <<>>
  /\ pg.err.kind = "NETWORK"

(* Properties of the typed wrappers, checked under SpecWrapper *)

\* the wrapper was called without a required input
MissingInput ==
  /\ en.called
  /\ \/ ~en.arg.key
     \/ en.wr = "queryResources" /\ ~en.arg.condition

\* the session fields are those the call found
SessionAsFound ==
  /\ accessToken = en.snap.tok
  /\ tokenExpiresAt = en.snap.exp
  /\ keepAliveInterval = en.snap.ka
  /\ timers = en.snap.tm

\* C38: a typed wrapper called with a missing required input fails with a
\* PARAMETER-classified error before any login or transport call is made,
\* without changing session state, and the call is not retried.
C38_MissingInputRejected ==
  MissingInput =>
    LET t == task[EntryCaller] IN
    /\ t.st = "done"
    /\ t.res.has /\ ~t.res.ok
    /\ t.res.kind = "PARAMETER"
    /\ t.io = 0 /\ t.nDisp = 0 /\ t.nEnsure = 0 /\ t.nRelogin = 0
    /\ SessionAsFound

\* the same for the wrappers handed an argument, or defaulting it: every
\* case but getCameraPreviewUrl() called with nothing
WrapperRejectsGivenInput ==
  (MissingInput /\ (en.wr = "getCameraPreviewUrl" => en.arg.given)) =>
    LET t == task[EntryCaller] IN
    /\ t.st = "done"
    /\ t.res.has /\ ~t.res.ok
    /\ t.res.kind = "PARAMETER"
    /\ t.io = 0 /\ t.nDisp = 0 /\ t.nEnsure = 0 /\ t.nRelogin = 0
    /\ SessionAsFound

(* Properties of Hikvision signing and verification, checked under SpecVerify *)

\* a signature was verified
Verified == sg.ver # <<>>

\* the signature the signing path produces for the inputs w and a body
SigningPath(w, body) ==
  AuthHeaders(sg.in.appKey, sg.in.appSecret, w.method, w.url, body, w.timestamp,
              w.nonce).signature

\* C39: verifySignature(method, url, body, timestamp, nonce, s) returns true
\* exactly when s is the signature the signing path produces for the same
\* method, url, timestamp and nonce, whatever the body; so a signature
\* emitted by generateAuthHeaders verifies for the inputs it was emitted for.
C39_VerifyMatchesSigning ==
  Verified =>
    LET v == sg.ver[1] IN
    /\ \A body \in Bodies : v.ok = (v.s = SigningPath(v.in, body))
    /\ (/\ v.s = sg.out[1].signature
        /\ [v.in EXCEPT !.body = ""] = sg.in)
       => v.ok

\* the signature emitted for a lower-case method and a URL without its
\* leading slash was verified with the same inputs and a body, and accepted
C39_Witness ==
  /\ Verified
  /\ sg.ver[1].s = sg.out[1].signature
  /\ [sg.ver[1].in EXCEPT !.body = ""] = sg.in
  /\ sg.in.method = "get"
  /\ ~sg.in.url.slash
  /\ sg.ver[1].in.body = "json"
  /\ sg.ver[1].ok

\* C40: the signature is a function of method, path with query string, app
\* key, timestamp, nonce and secret only: two requests that differ only in
\* their body receive the same signature, the hash of the canonical string
\* that holds no body.
C40_BodyNotSigned ==
  \A i \in 1..Len(sg.out) :
    /\ sg.out[i].signature =
         GenerateSignature(sg.in.appSecret,
           [method |-> Upper(sg.in.method), contentType |-> "application/json",
            accept |-> "application/json",
            headers |-> <<[key |-> sg.in.appKey], [nonce |-> sg.in.nonce],
                          [timestamp |-> sg.in.timestamp]>>,
            url |-> [slash |-> TRUE, query |-> sg.in.url.query], body |-> ""])
    /\ \A j \in 1..Len(sg.out) : sg.out[i].signature = sg.out[j].signature

\* two requests with a query string were signed, one without a body and one
\* with a body
C40_Witness ==
  /\ sg.n = 2
  /\ sg.bodies = <<"", "json">>
  /\ sg.in.url.query
  /\ sg.out[1].signature = sg.out[2].signature

====
